---- MODULE Spec2Model ----
(***************************************************************************)
(* A model of labsuite's Protocol (src/labsuite/protocol/protocol.py): the *)
(* document state, the declaration and command-issuing operations, the     *)
(* merge, versioning, the run generator and the virtual run.               *)
(*                                                                         *)
(* Conventions.  A Python string is the sequence of its character codes.   *)
(* None is the empty sequence <<>> and a present value v is <<v>>.  A dict *)
(* is a function on its key set.  An operation of the code is an operator  *)
(* that returns a record holding the objects it leaves behind and `exc',   *)
(* the kind of exception it raised ("none" when it returned).              *)
(***************************************************************************)
EXTENDS Integers, Sequences, FiniteSets, TLC

VARIABLES
    p,                  \* the Protocol object (its fields, by their names)
    hobj,               \* the handler objects ever created, by identity
    logger_disabled,    \* logging.getLogger().disabled
    gen,                \* the generator returned by the latest run() call
    markers,            \* what that generator has yielded so far
    calls,              \* the handler calls made on behalf of that generator
    last                \* the latest operation called and how it ended

vars == <<p, hobj, logger_disabled, gen, markers, calls, last>>

----------------------------------------------------------------------------
(* Bounds of the model. *)

MaxCmds == 2
MaxVer == 2
MaxHandlers == 2

----------------------------------------------------------------------------
(* Values. *)

None == <<>>
Some(v) == <<v>>
EmptyDict == [k \in {} |-> 0]
Put(f, k, v) == [y \in (DOMAIN f) \cup {k} |-> IF y = k THEN v ELSE f[y]]
Values(f) == {f[k] : k \in DOMAIN f}

Ok(v) == [exc |-> "none", v |-> v]
Raise(kind) == [exc |-> kind, v |-> None]

\* Character codes.
ChColon == 58
ChDot == 46
Ch0 == 48
Ch9 == 57
ChA == 65
ChZ == 90
ChLowerA == 97
ChLowerZ == 122

IsDigit(c) == Ch0 <= c /\ c <= Ch9

\* str.lower() and str.upper(), on the ASCII letters.
lower(s) == [i \in 1..Len(s) |-> IF ChA <= s[i] /\ s[i] <= ChZ THEN s[i] + 32 ELSE s[i]]
upper(s) == [i \in 1..Len(s) |-> IF ChLowerA <= s[i] /\ s[i] <= ChLowerZ THEN s[i] - 32 ELSE s[i]]

\* int(s) for a string of decimal digits.
RECURSIVE StrToInt(_)
StrToInt(s) ==
    IF Len(s) = 0 THEN 0
    ELSE 10 * StrToInt(SubSeq(s, 1, Len(s) - 1)) + (s[Len(s)] - Ch0)

\* str(n) for n >= 0.
RECURSIVE IntToStr(_)
IntToStr(n) ==
    IF n < 10 THEN <<Ch0 + n>>
    ELSE Append(IntToStr(n \div 10), Ch0 + (n % 10))

\* s.split(sep), for a one-character separator.
RECURSIVE Split(_, _)
Split(s, sep) ==
    IF \A i \in 1..Len(s) : s[i] # sep THEN <<s>>
    ELSE LET k == CHOOSE i \in 1..Len(s) :
                      s[i] = sep /\ \A j \in 1..(i - 1) : s[j] # sep
         IN <<SubSeq(s, 1, k - 1)>> \o Split(SubSeq(s, k + 1, Len(s)), sep)

\* sep.join(parts)
RECURSIVE Join(_, _)
Join(parts, sep) ==
    IF Len(parts) = 0 THEN <<>>
    ELSE IF Len(parts) = 1 THEN parts[1]
    ELSE parts[1] \o <<sep>> \o Join(Tail(parts), sep)

\* A position given by the caller: a string ("A1") or a tuple of integers
\* ((0, 0)); and what else a caller may pass: an integer, or a tuple with a
\* member that is no integer (the tuple as it is written).
Str(s) == [t |-> "str", v |-> s]
Tup(v) == [t |-> "tup", v |-> v]
IntPos(n) == [t |-> "int", v |-> <<n>>]
MixedTup(text) == [t |-> "mixed", v |-> text]

\* labware.grid.normalize_position returning the row as it is written, not
\* counted from zero (a mutant).
normalize_position_row_as_written(pos) ==
    IF pos.t = "tup"
    THEN IF Len(pos.v) = 2 THEN Ok(pos.v) ELSE Raise("TypeError")
    ELSE IF pos.t # "str" THEN Raise("TypeError")
    ELSE LET s == upper(pos.v)
             digits == Tail(s)
         IN IF Len(s) = 0 THEN Raise("ValueError")
            ELSE IF ~(ChA <= s[1] /\ s[1] <= ChZ) THEN Raise("ValueError")
            ELSE IF Len(digits) = 0 \/ \E i \in 1..Len(digits) : ~IsDigit(digits[i])
                 THEN Raise("ValueError")
            ELSE IF StrToInt(digits) = 0 THEN Raise("ValueError")
            ELSE Ok(<<s[1] - ChA, StrToInt(digits)>>)

\* labware.grid.normalize_position: a tuple of two integers passes through;
\* a string is one letter A-Z (either case) and a positive decimal number;
\* anything else is a TypeError.
normalize_position(pos) ==
    IF pos.t = "tup"
    THEN IF Len(pos.v) = 2 THEN Ok(pos.v) ELSE Raise("TypeError")
    ELSE IF pos.t # "str" THEN Raise("TypeError")
    ELSE LET s == upper(pos.v)
             digits == Tail(s)
         IN IF Len(s) = 0 THEN Raise("ValueError")
            ELSE IF ~(ChA <= s[1] /\ s[1] <= ChZ) THEN Raise("ValueError")
            ELSE IF Len(digits) = 0 \/ \E i \in 1..Len(digits) : ~IsDigit(digits[i])
                 THEN Raise("ValueError")
            ELSE IF StrToInt(digits) = 0 THEN Raise("ValueError")
            ELSE Ok(<<s[1] - ChA, StrToInt(digits) - 1>>)

\* labware.grid.humanize_position
humanize_position(pos) == <<ChA + pos[1]>> \o IntToStr(pos[2] + 1)

----------------------------------------------------------------------------
(* The instruments (labware.pipettes): name and volume range. *)

ToolMin(name) ==
    IF name = "p10" THEN 1 ELSE IF name = "p200" THEN 20
    ELSE IF name = "p1000" THEN 200 ELSE 0
ToolMax(name) ==
    IF name = "p10" THEN 10 ELSE IF name = "p200" THEN 200
    ELSE IF name = "p1000" THEN 1000 ELSE 0
ToolCovers(name, vol) == ToolMin(name) <= vol /\ vol <= ToolMax(name)

----------------------------------------------------------------------------
(* ContextHandler: the virtual deck. *)

\* ContextHandler(protocol)
NewContext ==
    [containers |-> EmptyDict, instruments |-> EmptyDict,
     calibration |-> {}, ran |-> 0]

CtxAddContainer(ch, slot, name) ==
    IF slot \in DOMAIN ch.containers /\ ch.containers[slot] # name
    THEN Raise("ContainerConflict")
    ELSE Ok([ch EXCEPT !.containers = Put(@, slot, name)])

CtxAddInstrument(ch, axis, name) ==
    IF axis \in DOMAIN ch.instruments /\ ch.instruments[axis] # name
    THEN Raise("InstrumentConflict")
    ELSE Ok([ch EXCEPT !.instruments = Put(@, axis, name)])

\* get_instrument(name=, has_volume=, has_volumes=): the name of the
\* instrument, or None.  vols is the set of volumes to cover.
CtxGetInstrument(ch, name, vols) ==
    LET have == Values(ch.instruments)
        cands == IF name # None THEN {t \in have : t = name[1]}
                 ELSE {t \in have : \A v \in vols : ToolCovers(t, v)}
    IN IF cands = {} THEN None
       ELSE Some(CHOOSE t \in cands : \A u \in cands : ToolMax(t) <= ToolMax(u))

\* One calibration value held by the ContextHandler: for a position or a
\* well (target, the coordinates) or for an instrument (axis).
CalEntry(axis, target, field, value) ==
    [axis |-> axis, target |-> target, field |-> field, value |-> value]

\* The values given (not None) among the keyword arguments kw.
Given(kw) == {f \in DOMAIN kw : kw[f] # None}

\* ContextHandler.calibrate(pos, **kwargs) and
\* ContextHandler.calibrate_instrument(axis, top=, blowout=, droptip=): the
\* values given replace those held for the same target or axis and field.
CtxCalibrate(ch, axis, target, kw) ==
    [ch EXCEPT !.calibration =
        {e \in @ : ~(e.axis = axis /\ e.target = target /\ e.field \in Given(kw))}
        \cup {CalEntry(axis, target, f, kw[f][1]) : f \in Given(kw)}]

CtxCommands == {"transfer", "transfer_group", "distribute", "consolidate", "mix"}

\* The containers a command record refers to.
CmdSlots(c) ==
    (IF "start" \in DOMAIN c THEN {c.start[1]} ELSE {})
    \cup (IF "end" \in DOMAIN c THEN {c.end[1]} ELSE {})
    \cup (IF "transfers" \in DOMAIN c
          THEN UNION {(IF "start" \in DOMAIN c.transfers[i]
                       THEN {c.transfers[i].start[1]} ELSE {})
                      \cup (IF "end" \in DOMAIN c.transfers[i]
                            THEN {c.transfers[i].end[1]} ELSE {})
                      : i \in 1..Len(c.transfers)}
          ELSE {})

CmdVolumes(c) ==
    (IF "volume" \in DOMAIN c THEN {c.volume} ELSE {})
    \cup (IF "transfers" \in DOMAIN c
          THEN {c.transfers[i].volume : i \in 1..Len(c.transfers)}
          ELSE {})

\* A command-shaped method of the ContextHandler, called with the record's
\* fields: the instrument and the containers must exist, volumes be positive.
CtxCommand(ch, c) ==
    IF c.tool \notin Values(ch.instruments) THEN Raise("InstrumentMissing")
    ELSE IF \E s \in CmdSlots(c) : s \notin DOMAIN ch.containers
         THEN Raise("ContainerMissing")
    ELSE IF \E v \in CmdVolumes(c) : v <= 0 THEN Raise("ValueError")
    ELSE Ok([ch EXCEPT !.ran = @ + 1])

----------------------------------------------------------------------------
(* Protocol: construction, metadata, hash and version. *)

Res(self, exc) == [p |-> self, exc |-> exc, ret |-> None]

\* Protocol.initialize_context, with the context left alone (a mutant).
initialize_context_stale(self) == self._context_handler

\* Protocol.initialize_context: a new ContextHandler given the document's
\* containers and instruments, one add_* call each.
RECURSIVE CtxAddContainers(_, _, _)
CtxAddContainers(ch, containers, todo) ==
    IF todo = {} THEN ch
    ELSE LET slot == CHOOSE s \in todo : TRUE
         IN CtxAddContainers(CtxAddContainer(ch, slot, containers[slot]).v,
                             containers, todo \ {slot})

RECURSIVE CtxAddInstruments(_, _, _)
CtxAddInstruments(ch, head, todo) ==
    IF todo = {} THEN ch
    ELSE LET axis == CHOOSE a \in todo : TRUE
         IN CtxAddInstruments(CtxAddInstrument(ch, axis, head[axis]).v,
                              head, todo \ {axis})

initialize_context(self) ==
    CtxAddInstruments(
        CtxAddContainers(NewContext, self._containers, DOMAIN self._containers),
        self._head, DOMAIN self._head)

\* Protocol.__init__
NewProtocol ==
    [_ingredients |-> EmptyDict, _head |-> EmptyDict, _calibration |-> EmptyDict,
     _container_labels |-> EmptyDict, _label_case |-> EmptyDict,
     _containers |-> EmptyDict, _commands |-> <<>>,
     _name |-> None, _description |-> None, _created |-> None,
     _updated |-> None, _author |-> None,
     _version |-> <<0, 0, 0>>, _version_hash |-> None,
     _handlers |-> <<>>, _context_handler |-> NewContext,
     _motor_handler |-> None, _partial_proxy |-> None]

\* hashing.hash_data: a digest of a canonical serialization of the data.  Two
\* digests are equal exactly when the data are; the order in which a dict
\* was filled plays no part.
hash_data(data) == data

\* Protocol.hash with the version among the hashed fields (a mutant).
hash_with_version(self) ==
    hash_data(<<self._ingredients, self._head, self._container_labels,
                self._label_case, self._containers, self._commands,
                self._version>>)

\* Protocol.hash
hash(self) ==
    hash_data(<<self._ingredients, self._head, self._container_labels,
                self._label_case, self._containers, self._commands>>)

\* Protocol.__eq__
__eq__(self, protocol) == hash(self) = hash(protocol)

\* Protocol.version: ".".join(map(str, self._version))
version(self) ==
    Join([i \in 1..Len(self._version) |-> IntToStr(self._version[i])], ChDot)

\* tuple(map(int, version.split('.')))
ParseVersion(s) ==
    LET parts == Split(s, ChDot)
    IN IF \E i \in 1..Len(parts) :
              Len(parts[i]) = 0 \/ \E j \in 1..Len(parts[i]) : ~IsDigit(parts[i][j])
       THEN Raise("ValueError")
       ELSE Ok([i \in 1..Len(parts) |-> StrToInt(parts[i])])

\* Protocol.set_info.  kw holds the keyword arguments given (None: not given).
set_info(self, kw) ==
    LET s1 == [self EXCEPT
                 !._name = IF kw.name # None THEN kw.name ELSE @,
                 !._description = IF kw.description # None THEN kw.description ELSE @,
                 !._author = IF kw.author # None THEN kw.author ELSE @,
                 !._created = IF kw.created # None THEN kw.created ELSE @,
                 !._updated = IF kw.updated # None THEN kw.updated ELSE @]
    IN IF kw.version = None THEN Res(s1, "none")
       ELSE LET v == ParseVersion(kw.version[1])
            IN IF v.exc # "none" THEN Res(s1, v.exc)
               ELSE Res([s1 EXCEPT !._version = v.v,
                                   !._version_hash = Some(hash(s1))], "none")

NoInfo ==
    [name |-> None, description |-> None, created |-> None,
     updated |-> None, author |-> None, version |-> None, version_hash |-> None]

\* `v or default': None and the empty string count as false.
Truthy(v) == v # None /\ v # Some("")

\* time.strftime("%c"): the time of the call.
Now == "now"

\* Protocol.info
info(self) ==
    [name |-> self._name, author |-> self._author,
     description |-> self._description,
     created |-> IF Truthy(self._created) THEN self._created ELSE Some(Now),
     updated |-> IF Truthy(self._updated) THEN self._updated ELSE Some(Now),
     version |-> Some(version(self)), version_hash |-> Some(hash(self))]

\* Protocol.bump_version with the feature bump keeping the minor number (a
\* mutant).
bump_version_keep_minor(self, impact) ==
    LET vhash == hash(self)
        v == self._version
    IN IF Some(vhash) = self._version_hash
       THEN [p |-> self, exc |-> "none", ret |-> Some(version(self))]
       ELSE IF Len(v) # 3 THEN Res(self, "ValueError")
       ELSE IF impact \notin {"minor", "feature", "major"} THEN Res(self, "ValueError")
       ELSE LET nv == IF impact = "minor" THEN <<v[1], v[2], v[3] + 1>>
                      ELSE IF impact = "feature" THEN <<v[1], v[2] + 1, v[3]>>
                      ELSE <<v[1] + 1, 0, 0>>
                s1 == [self EXCEPT !._version = nv, !._version_hash = Some(vhash)]
            IN [p |-> s1, exc |-> "none", ret |-> Some(version(s1))]

\* Protocol.bump_version that bumps without looking at the hash (a mutant).
bump_version_always(self, impact) ==
    LET vhash == hash(self)
        v == self._version
    IN IF Len(v) # 3 THEN Res(self, "ValueError")
       ELSE IF impact \notin {"minor", "feature", "major"} THEN Res(self, "ValueError")
       ELSE LET nv == IF impact = "minor" THEN <<v[1], v[2], v[3] + 1>>
                      ELSE IF impact = "feature" THEN <<v[1], v[2] + 1, 0>>
                      ELSE <<v[1] + 1, 0, 0>>
                s1 == [self EXCEPT !._version = nv, !._version_hash = Some(vhash)]
            IN [p |-> s1, exc |-> "none", ret |-> Some(version(s1))]

\* Protocol.bump_version
bump_version(self, impact) ==
    LET vhash == hash(self)
        v == self._version
    IN IF Some(vhash) = self._version_hash
       THEN [p |-> self, exc |-> "none", ret |-> Some(version(self))]
       ELSE IF Len(v) # 3 THEN Res(self, "ValueError")
       ELSE IF impact \notin {"minor", "feature", "major"} THEN Res(self, "ValueError")
       ELSE LET nv == IF impact = "minor" THEN <<v[1], v[2], v[3] + 1>>
                      ELSE IF impact = "feature" THEN <<v[1], v[2] + 1, 0>>
                      ELSE <<v[1] + 1, 0, 0>>
                s1 == [self EXCEPT !._version = nv, !._version_hash = Some(vhash)]
            IN [p |-> s1, exc |-> "none", ret |-> Some(version(s1))]

----------------------------------------------------------------------------
(* Protocol: declarations. *)

\* Protocol.add_container without the test for a label already in use (a
\* mutant).
add_container_label_unchecked(self, slot, name, label) ==
    LET pos == normalize_position(slot)
        lowlabel == lower(label[1])
    IN IF pos.exc # "none" THEN Res(self, pos.exc)
       ELSE LET s1 == IF label # None /\ label[1] # <<>>
                      THEN [self EXCEPT
                              !._label_case =
                                  IF lowlabel \notin DOMAIN @
                                  THEN Put(@, lowlabel, label[1]) ELSE @,
                              !._container_labels = Put(@, lowlabel, pos.v)]
                      ELSE self
                c == CtxAddContainer(s1._context_handler, pos.v, name)
            IN IF c.exc # "none" THEN Res(s1, c.exc)
               ELSE Res([s1 EXCEPT !._context_handler = c.v,
                                   !._containers = Put(@, pos.v, name)], "none")

\* Protocol.add_container.  label is None or the label string.
add_container(self, slot, name, label) ==
    LET pos == normalize_position(slot)
        lowlabel == lower(label[1])
    IN IF pos.exc # "none" THEN Res(self, pos.exc)
       ELSE IF label # None /\ label[1] # <<>>
                 /\ lowlabel \in DOMAIN self._container_labels
            THEN Res(self, "ContainerConflict")
       ELSE LET s1 == IF label # None /\ label[1] # <<>>
                      THEN [self EXCEPT
                              !._label_case =
                                  IF lowlabel \notin DOMAIN @
                                  THEN Put(@, lowlabel, label[1]) ELSE @,
                              !._container_labels = Put(@, lowlabel, pos.v)]
                      ELSE self
                c == CtxAddContainer(s1._context_handler, pos.v, name)
            IN IF c.exc # "none" THEN Res(s1, c.exc)
               ELSE Res([s1 EXCEPT !._context_handler = c.v,
                                   !._containers = Put(@, pos.v, name)], "none")

\* Protocol.add_instrument
add_instrument(self, axis, name) ==
    LET s1 == [self EXCEPT !._head = Put(@, axis, name)]
        c == CtxAddInstrument(s1._context_handler, axis, name)
    IN IF c.exc # "none" THEN Res(s1, c.exc)
       ELSE Res([s1 EXCEPT !._context_handler = c.v], "none")

----------------------------------------------------------------------------
(* Protocol: command issuance. *)

\* Protocol._normalize_volume returning the millilitres as they were given (a
\* mutant).
_normalize_volume_unscaled(ul, ml, default, skip_raise) ==
    IF ul = Some(0) \/ ml = Some(0) \/ default = Some(0) THEN Raise("ValueError")
    ELSE IF ul # None /\ ml # None /\ ml[1] * 1000 # ul[1] THEN Raise("ValueError")
    ELSE IF ul # None THEN Ok(ul)
    ELSE IF ml # None THEN Ok(ml)
    ELSE IF default # None THEN Ok(default)
    ELSE IF ~skip_raise THEN Raise("ValueError")
    ELSE Ok(None)

\* Protocol._normalize_volume.  ul, ml, default: None or a number.
_normalize_volume(ul, ml, default, skip_raise) ==
    IF ul = Some(0) \/ ml = Some(0) \/ default = Some(0) THEN Raise("ValueError")
    ELSE IF ul # None /\ ml # None /\ ml[1] * 1000 # ul[1] THEN Raise("ValueError")
    ELSE IF ul # None THEN Ok(ul)
    ELSE IF ml # None THEN Ok(Some(ml[1] * 1000))
    ELSE IF default # None THEN Ok(default)
    ELSE IF ~skip_raise THEN Raise("ValueError")
    ELSE Ok(None)

\* Protocol._normalize_address looking the label up as it is written (a
\* mutant).
_normalize_address_case_sensitive(self, address) ==
    IF \A i \in 1..Len(address) : address[i] # ChColon THEN Raise("ValueError")
    ELSE LET parts == Split(address, ChColon)
         IN IF Len(parts) # 2 THEN Raise("ValueError")
            ELSE LET well == normalize_position(Str(parts[2]))
                     container == normalize_position(Str(parts[1]))
                     label == parts[1]
                 IN IF well.exc # "none" THEN Raise(well.exc)
                    ELSE IF container.exc = "none" THEN Ok(<<container.v, well.v>>)
                    ELSE IF label \notin DOMAIN self._container_labels
                         THEN Raise("ContainerMissing")
                    ELSE Ok(<<self._container_labels[label], well.v>>)

\* Protocol._normalize_address
_normalize_address(self, address) ==
    IF \A i \in 1..Len(address) : address[i] # ChColon THEN Raise("ValueError")
    ELSE LET parts == Split(address, ChColon)
         IN IF Len(parts) # 2 THEN Raise("ValueError")
            ELSE LET well == normalize_position(Str(parts[2]))
                     container == normalize_position(Str(parts[1]))
                     label == lower(parts[1])
                 IN IF well.exc # "none" THEN Raise(well.exc)
                    ELSE IF container.exc = "none" THEN Ok(<<container.v, well.v>>)
                    ELSE IF label \notin DOMAIN self._container_labels
                         THEN Raise("ContainerMissing")
                    ELSE Ok(<<self._container_labels[label], well.v>>)

\* Protocol.get_tool asking the context for an instrument without giving the
\* volumes (a mutant).
get_tool_any_volume(self, name, vols) ==
    LET tool == CtxGetInstrument(self._context_handler, name, {})
    IN IF tool = None THEN Raise("InstrumentMissing") ELSE Ok(tool[1])

\* Protocol.get_tool: the instrument's name.
get_tool(self, name, vols) ==
    LET tool == CtxGetInstrument(self._context_handler, name, vols)
    IN IF tool = None THEN Raise("InstrumentMissing") ELSE Ok(tool[1])

\* Protocol._run_in_context_handler.  c is the command record: the command
\* name and the keyword arguments.
_run_in_context_handler(self, c) ==
    IF c.command \notin CtxCommands THEN Res(self, "AttributeError")
    ELSE IF "tool" \notin DOMAIN c THEN Res(self, "TypeError")
    ELSE LET r == CtxCommand(self._context_handler, c)
         IN IF r.exc # "none" THEN Res(self, r.exc)
            ELSE Res([self EXCEPT !._context_handler = r.v], "none")

\* Protocol.add_command that appends before it validates (a mutant).
add_command_unchecked(self, c) ==
    LET s1 == [self EXCEPT !._commands = Append(@, c)]
        r == _run_in_context_handler(s1, c)
    IN Res(r.p, r.exc)

\* Protocol.add_command
add_command(self, c) ==
    LET r == _run_in_context_handler(self, c)
    IN IF r.exc # "none" THEN Res(r.p, r.exc)
       ELSE Res([r.p EXCEPT !._commands = Append(@, c)], "none")

\* Protocol.transfer.  a holds the arguments, the defaults filled in.
transfer(self, a) ==
    LET volume == _normalize_volume(a.ul, a.ml, None, FALSE)
        tool == get_tool(self, a.tool, {volume.v[1]})
        start == _normalize_address(self, a.start)
        end == _normalize_address(self, a.end)
    IN IF volume.exc # "none" THEN Res(self, volume.exc)
       ELSE IF tool.exc # "none" THEN Res(self, tool.exc)
       ELSE IF start.exc # "none" THEN Res(self, start.exc)
       ELSE IF end.exc # "none" THEN Res(self, end.exc)
       ELSE add_command(self,
                [command |-> "transfer", volume |-> volume.v[1], tool |-> tool.v,
                 start |-> start.v, end |-> end.v,
                 blowout |-> a.blowout, touchtip |-> a.touchtip])

\* Protocol.mix
mix(self, a) ==
    LET volume == _normalize_volume(a.ul, a.ml, None, FALSE)
        tool == get_tool(self, a.tool, {volume.v[1]})
        start == _normalize_address(self, a.start)
    IN IF volume.exc # "none" THEN Res(self, volume.exc)
       ELSE IF tool.exc # "none" THEN Res(self, tool.exc)
       ELSE IF start.exc # "none" THEN Res(self, start.exc)
       ELSE add_command(self,
                [command |-> "mix", tool |-> tool.v, start |-> start.v,
                 blowout |-> a.blowout, touchtip |-> a.touchtip,
                 volume |-> volume.v[1], reps |-> a.repetitions])

\* dict helpers: d.get(k), d.pop(k, None) as the dict left, d.update(e).
Get(d, k) == IF k \in DOMAIN d THEN Some(d[k]) ELSE None
Without(d, k) == [x \in (DOMAIN d) \ {k} |-> d[x]]
Update(d, e) == [x \in (DOMAIN d) \cup (DOMAIN e) |-> IF x \in DOMAIN e THEN e[x] ELSE d[x]]

SeqMin(s) == CHOOSE x \in {s[i] : i \in 1..Len(s)} : \A i \in 1..Len(s) : x <= s[i]
SeqMax(s) == CHOOSE x \in {s[i] : i \in 1..Len(s)} : \A i \in 1..Len(s) : x >= s[i]

\* F applied to the value v: a local name for a value used more than once.
Let(v, F(_)) == F(v)

\* The loop of Protocol._make_transfer_group over the wells left.  An item is
\* [args |-> the addresses of the tuple, opts |-> None or its options dict];
\* defaults is the keyword dict, which the loop pops from.  An argument that
\* is missing, or is the options dict, raises ValueError where it is read.
RECURSIVE TransferItems(_, _, _, _, _, _)
TransferItems(self, wells, arg_names, defaults, volume, transfers) ==
    IF Len(wells) = 0 THEN Ok(transfers)
    ELSE
    Let(Head(wells), LAMBDA item :
    Let(Len(arg_names), LAMBDA n :
    Let(Without(Without(defaults, "blowout"), "touchtip"), LAMBDA defaults1 :
    Let(Update([k \in {"blowout", "touchtip"} |->
                   IF k \in DOMAIN defaults THEN defaults[k] ELSE TRUE],
               defaults1), LAMBDA options0 :
    Let([i \in 1..n |-> IF i > Len(item.args) THEN Raise("ValueError")
                        ELSE _normalize_address(self, item.args[i])], LAMBDA addrs :
    Let({i \in 1..n : addrs[i].exc # "none"}, LAMBDA bad :
    Let((Len(item.args) - n) + (IF item.opts = None THEN 0 ELSE 1), LAMBDA left :
    Let(IF left = 1 THEN Update(options0, item.opts[1]) ELSE options0,
        LAMBDA options1 :
    Let(_normalize_volume(Get(options1, "ul"), Get(options1, "ml"), volume, FALSE),
        LAMBDA vol :
        IF bad # {}
        THEN Raise(addrs[CHOOSE i \in bad : \A j \in bad : i <= j].exc)
        ELSE IF left = 1 /\ item.opts = None THEN Raise("ValueError")
        ELSE IF vol.exc # "none" THEN Raise(vol.exc)
        ELSE TransferItems(self, Tail(wells), arg_names, defaults1, volume,
                 Append(transfers,
                     Update(Put([k \in {arg_names[j] : j \in 1..n} |->
                                   addrs[CHOOSE j \in 1..n : arg_names[j] = k].v],
                                "volume", vol.v[1]),
                            Without(Without(options1, "ul"), "ml"))))
    )))))))))

\* Protocol._make_transfer_group: [transfers, min_vol, max_vol]
_make_transfer_group(self, wells, arg_names, defaults) ==
    Let(_normalize_volume(Get(defaults, "ul"), Get(defaults, "ml"), None, TRUE),
        LAMBDA volume :
        IF volume.exc # "none" THEN Raise(volume.exc)
        ELSE
        Let(TransferItems(self, wells, arg_names,
                          Without(Without(defaults, "ul"), "ml"), volume.v, <<>>),
            LAMBDA r :
            IF r.exc # "none" THEN Raise(r.exc)
            ELSE IF Len(r.v) = 0 THEN Raise("ValueError")
            ELSE Let([i \in 1..Len(r.v) |-> r.v[i].volume], LAMBDA vols :
                     Ok([transfers |-> r.v, min_vol |-> SeqMin(vols),
                         max_vol |-> SeqMax(vols)]))))

\* The rest of a batch operation once _make_transfer_group has returned g:
\* the instrument for the volume range, the address `key' normalized, and
\* add_command.
BatchCommand(self, a, command, key, g) ==
    IF g.exc # "none" THEN Res(self, g.exc)
    ELSE
    Let(get_tool(self, a.tool, {g.v.min_vol, g.v.max_vol}), LAMBDA tool :
        IF tool.exc # "none" THEN Res(self, tool.exc)
        ELSE IF key = None
        THEN add_command(self, [command |-> command, tool |-> tool.v,
                                transfers |-> g.v.transfers])
        ELSE
        Let(_normalize_address(self, a[key[1]]), LAMBDA addr :
            IF addr.exc # "none" THEN Res(self, addr.exc)
            ELSE add_command(self,
                     Put([command |-> command, tool |-> tool.v,
                          transfers |-> g.v.transfers], key[1], addr.v))))

\* Protocol.transfer_group
transfer_group(self, a) ==
    BatchCommand(self, a, "transfer_group", None,
        _make_transfer_group(self, a.wells, <<"start", "end">>, a.defaults))

\* Protocol.distribute
distribute(self, a) ==
    BatchCommand(self, a, "distribute", Some("start"),
        _make_transfer_group(self, a.wells, <<"end">>, a.defaults))

\* Protocol.consolidate
consolidate(self, a) ==
    BatchCommand(self, a, "consolidate", Some("end"),
        _make_transfer_group(self, a.wells, <<"start">>, a.defaults))

\* The commands property returning the list itself (a mutant).
commands_alias(self) == [alias |-> TRUE, value |-> self._commands]

\* Protocol.commands: copy.deepcopy(self._commands).  `alias' tells whether
\* the list returned is the document's own list object.
commands(self) == [alias |-> FALSE, value |-> self._commands]

\* Protocol.actions: copy.deepcopy(self._commands)
actions(self) == [alias |-> FALSE, value |-> self._commands]

\* The document after the caller has changed a list an accessor returned
\* into newvalue.
WriteThrough(self, list, newvalue) ==
    IF list.alias THEN [self EXCEPT !._commands = newvalue] ELSE self

----------------------------------------------------------------------------
(* Protocol: merge.  A dict is iterated in an order the model does not fix: *)
(* ord.containers, ord.labels and ord.head are the orders in which the      *)
(* operand's dicts are walked, ord.inv is the inverted label dict           *)
(* {v: k for k, v in self._container_labels.items()}, which keeps one label *)
(* per slot.                                                                *)

Perms(S) ==
    {s \in [1..Cardinality(S) -> S] : \A i, j \in 1..Cardinality(S) : s[i] = s[j] => i = j}

Inverses(labels) ==
    {f \in [Values(labels) -> DOMAIN labels] : \A slot \in Values(labels) : labels[f[slot]] = slot}

Orders(self, b) ==
    [containers : Perms(DOMAIN b._containers),
     labels : Perms(DOMAIN b._container_labels),
     head : Perms(DOMAIN b._head),
     inv : Inverses(self._container_labels)]

\* The container loop of apply_protocol without the conflict check of lines
\* 171-174 (a mutant).
RECURSIVE ApplyContainers_unchecked(_, _, _)
ApplyContainers_unchecked(self, b, order) ==
    IF Len(order) = 0 THEN Res(self, "none")
    ELSE
    Let(Head(order), LAMBDA slot :
        IF slot \in DOMAIN self._containers
        THEN ApplyContainers_unchecked(self, b, Tail(order))
        ELSE Let(add_container(self, Tup(slot), b._containers[slot], None), LAMBDA r :
                 IF r.exc # "none" THEN r
                 ELSE ApplyContainers_unchecked(r.p, b, Tail(order))))

RECURSIVE ApplyContainers(_, _, _)
ApplyContainers(self, b, order) ==
    IF Len(order) = 0 THEN Res(self, "none")
    ELSE
    Let(Head(order), LAMBDA slot :
        IF slot \in DOMAIN self._containers /\ self._containers[slot] # b._containers[slot]
        THEN Res(self, "ContainerConflict")
        ELSE IF slot \in DOMAIN self._containers
        THEN ApplyContainers(self, b, Tail(order))
        ELSE Let(add_container(self, Tup(slot), b._containers[slot], None), LAMBDA r :
                 IF r.exc # "none" THEN r
                 ELSE ApplyContainers(r.p, b, Tail(order))))

RECURSIVE ApplyLabels(_, _, _, _)
ApplyLabels(self, b, labels, order) ==
    IF Len(order) = 0 THEN Res(self, "none")
    ELSE
    Let(Head(order), LAMBDA label :
    Let(b._container_labels[label], LAMBDA slot :
        IF slot \in DOMAIN labels /\ labels[slot] # label
        THEN Res(self, "ContainerConflict")
        ELSE ApplyLabels([self EXCEPT !._container_labels = Put(@, label, slot)],
                         b, labels, Tail(order))))

\* The instrument loop of apply_protocol leaving alone an axis the document
\* has an instrument on (a mutant).
RECURSIVE ApplyInstruments_keep_first(_, _, _)
ApplyInstruments_keep_first(self, b, order) ==
    IF Len(order) = 0 THEN Res(self, "none")
    ELSE
    Let(Head(order), LAMBDA axis :
        IF axis \in DOMAIN self._head
        THEN ApplyInstruments_keep_first(self, b, Tail(order))
        ELSE Let(add_instrument(self, axis, b._head[axis]), LAMBDA r :
                 IF r.exc # "none" THEN r
                 ELSE ApplyInstruments_keep_first(r.p, b, Tail(order))))

RECURSIVE ApplyInstruments(_, _, _)
ApplyInstruments(self, b, order) ==
    IF Len(order) = 0 THEN Res(self, "none")
    ELSE
    Let(Head(order), LAMBDA axis :
        IF axis \in DOMAIN self._head /\ self._head[axis] # b._head[axis]
        THEN Res(self, "InstrumentConflict")
        ELSE Let(add_instrument(self, axis, b._head[axis]), LAMBDA r :
                 IF r.exc # "none" THEN r
                 ELSE ApplyInstruments(r.p, b, Tail(order))))

\* The command loop of apply_protocol copying the operand's records into the
\* log without running them (a mutant).
ApplyCommands_copied(self, todo) ==
    Res([self EXCEPT !._commands = @ \o todo], "none")

RECURSIVE ApplyCommands(_, _)
ApplyCommands(self, todo) ==
    IF Len(todo) = 0 THEN Res(self, "none")
    ELSE
    Let(add_command(self, Head(todo)), LAMBDA r :
        IF r.exc # "none" THEN r
        ELSE Let(commands(r.p), LAMBDA list :
                 ApplyCommands(WriteThrough(r.p, list, Append(list.value, Head(todo))),
                               Tail(todo))))

\* Protocol.apply_protocol
apply_protocol(self, b, ord) ==
    Let(set_info(self, info(b)), LAMBDA i :
        IF i.exc # "none" THEN i
        ELSE
    Let(ApplyContainers(i.p, b, ord.containers), LAMBDA c :
        IF c.exc # "none" THEN c
        ELSE
    Let(ApplyLabels(c.p, b, ord.inv, ord.labels), LAMBDA l :
        IF l.exc # "none" THEN l
        ELSE
    Let(ApplyInstruments([l.p EXCEPT !._label_case = Update(@, b._label_case)],
                         b, ord.head), LAMBDA h :
        IF h.exc # "none" THEN h
        ELSE ApplyCommands(h.p, actions(b).value)))))

\* Protocol.__add__ that applies only the operand to the new Protocol (a
\* mutant).
add_without_self(self, b, ord1, ord2) == apply_protocol(NewProtocol, b, ord2)

\* Protocol.__add__, for a Protocol operand: [p |-> the new Protocol c].
__add__(self, b, ord1, ord2) ==
    Let(apply_protocol(NewProtocol, self, ord1), LAMBDA r1 :
        IF r1.exc # "none" THEN r1 ELSE apply_protocol(r1.p, b, ord2))

----------------------------------------------------------------------------
(* Handlers.  A handler object is hobj[id]: its class, whether the context  *)
(* it was last given is the Protocol's present _context_handler, and the    *)
(* motor mode.  The world w an operation acts on is the Protocol, the       *)
(* handler objects and the root logger's flag.                              *)

HandlerKinds ==
    {"MotorControlHandler", "RequirementsHandler", "ProtocolHandler", "NoMixHandler"}

\* The command methods a handler class defines: ProtocolHandler stubs every
\* command; NoMixHandler is a handler written without subclassing it.
HandlerDefines(kind, command) ==
    IF kind = "NoMixHandler" THEN command \in CtxCommands \ {"mix"}
    ELSE command \in CtxCommands

\* A handler's command method: the motor handler needs a tiprack on the deck.
HandlerCommand(kind, ch, c) ==
    IF kind = "MotorControlHandler" /\ "tiprack" \notin Values(ch.containers)
    THEN "ContainerMissing"
    ELSE "none"

World(self, objs, disabled) == [p |-> self, hobj |-> objs, logger_disabled |-> disabled]

WRes(w, exc) == [w |-> w, exc |-> exc, ret |-> None, calls |-> <<>>]

\* h.set_context(self._context_handler) for the handlers ids.
SetContext(objs, ids) ==
    [i \in 1..Len(objs) |-> IF i \in ids THEN [objs[i] EXCEPT !.context = "current"] ELSE objs[i]]

\* The handler objects once the Protocol holds a new context object.
Outdated(objs) == [i \in 1..Len(objs) |-> [objs[i] EXCEPT !.context = "stale"]]

SeqSet(s) == {s[i] : i \in 1..Len(s)}

\* list.remove(x): the list without the first x.
Remove(s, x) ==
    LET k == CHOOSE i \in 1..Len(s) : s[i] = x /\ \A j \in 1..(i - 1) : s[j] # x
    IN SubSeq(s, 1, k - 1) \o SubSeq(s, k + 1, Len(s))

\* Protocol.attach_handler.  handler is [class |-> kind] or [instance |-> id].
attach_handler(w, handler) ==
    Let(IF "class" \in DOMAIN handler THEN Len(w.hobj) + 1 ELSE handler.instance,
        LAMBDA id :
    Let(IF "class" \in DOMAIN handler
        THEN Append(w.hobj, [kind |-> handler.class, context |-> "none",
                             mode |-> "none"])
        ELSE w.hobj, LAMBDA objs :
        [w |-> [w EXCEPT !.hobj = SetContext(objs, {id}),
                         !.p._handlers = Append(@, id)],
         exc |-> "none", ret |-> Some(id), calls |-> <<>>]))

\* Protocol.attach_motor.  port is None or a port name.
attach_motor(w, port) ==
    Let(attach_handler(w, [class |-> "MotorControlHandler"]), LAMBDA a :
        [w |-> [a.w EXCEPT !.p._motor_handler = a.ret,
                           !.hobj[a.ret[1]].mode = IF port # None THEN "connected"
                                                   ELSE "simulated"],
         exc |-> "none", ret |-> a.ret, calls |-> <<>>])

\* Protocol.calibrate.  position is a token or, with a colon, an address.
calibrate(self, position, kw) ==
    LET isaddr == \E i \in 1..Len(position) : position[i] = ChColon
        pos == IF isaddr THEN _normalize_address(self, position)
               ELSE normalize_position(Str(position))
    IN IF pos.exc # "none" THEN Res(self, pos.exc)
       ELSE Res([self EXCEPT !._context_handler =
                    CtxCalibrate(@, "", IF isaddr THEN pos.v[1] \o pos.v[2] ELSE pos.v,
                                 kw)],
                "none")

\* Protocol.calibrate_instrument: bottom is accepted and not passed on.
calibrate_instrument(self, axis, top, blowout, droptip, bottom) ==
    Res([self EXCEPT !._context_handler =
            CtxCalibrate(@, axis, <<>>,
                         [top |-> top, blowout |-> blowout, droptip |-> droptip])],
        "none")

\* Protocol.validate that finds every document valid (a mutant).
validate_nothing(self) == "none"

\* Protocol.validate.  _partial_proxy is None or the proxy object: its
\* is_valid flag and its problems, the descriptions queued, in order.
validate(self) ==
    IF self._partial_proxy # None /\ ~self._partial_proxy[1].is_valid
    THEN "PartialProtocolException"
    ELSE "none"

\* sep.join(parts), the string as the sequence of its pieces.
RECURSIVE JoinPieces(_, _)
JoinPieces(parts, sep) ==
    IF Len(parts) = 0 THEN <<>>
    ELSE IF Len(parts) = 1 THEN <<parts[1]>>
    ELSE <<parts[1], sep>> \o JoinPieces(Tail(parts), sep)

\* The message of the exception validate raises, as the sequence of its
\* pieces: error_message + " Problems: {}".format("; ".join(problems)).
validate_message(self, error_message) ==
    <<error_message, " Problems: ">>
        \o JoinPieces(self._partial_proxy[1].problems, "; ")

\* The handler loop of Protocol._run for the handlers left: the calls made,
\* and the exception that ended them.
RECURSIVE HandlerLoop(_, _, _, _, _)
HandlerLoop(w, todo, c, index, made) ==
    IF Len(todo) = 0 THEN [exc |-> "none", calls |-> made]
    ELSE
    Let(Head(todo), LAMBDA h :
    Let(Append(made, <<h, "before_each", index>>), LAMBDA before :
        IF ~HandlerDefines(w.hobj[h].kind, c.command)
        THEN [exc |-> "AttributeError", calls |-> before]
        ELSE
    Let(HandlerCommand(w.hobj[h].kind, w.p._context_handler, c), LAMBDA e :
        IF e # "none"
        THEN [exc |-> e, calls |-> Append(before, <<h, c.command, index>>)]
        ELSE HandlerLoop(w, Tail(todo), c, index,
                         Append(before, <<h, c.command, index>>)
                             \o << <<h, "after_each", index>> >>))))

\* The call _run_in_context_handler makes on the context, as an entry of the
\* calls made: the context is handler 0.  getattr raises before any call.
ContextCall(c, index, exc) ==
    IF exc = "AttributeError" THEN <<>> ELSE << <<0, c.command, index>> >>

\* Protocol._run that calls the handlers before the context validates the
\* command (a mutant).
_run_handlers_first(w, index) ==
    Let(w.p._commands[index + 1], LAMBDA c :
    Let(HandlerLoop(w, w.p._handlers, c, index, <<>>), LAMBDA hl :
        IF hl.exc # "none"
        THEN [w |-> w, exc |-> hl.exc, ret |-> None, calls |-> hl.calls]
        ELSE Let(_run_in_context_handler(w.p, c), LAMBDA r :
                 [w |-> [w EXCEPT !.p = r.p], exc |-> r.exc, ret |-> None,
                  calls |-> hl.calls \o ContextCall(c, index, r.exc)])))

\* Protocol._run
_run(w, index) ==
    Let(w.p._commands[index + 1], LAMBDA c :
    Let(_run_in_context_handler(w.p, c), LAMBDA r :
        IF r.exc # "none"
        THEN [w |-> [w EXCEPT !.p = r.p], exc |-> r.exc, ret |-> None,
              calls |-> ContextCall(c, index, r.exc)]
        ELSE Let(HandlerLoop(w, w.p._handlers, c, index,
                             ContextCall(c, index, r.exc)), LAMBDA hl :
                 [w |-> [w EXCEPT !.p = r.p], exc |-> hl.exc, ret |-> None,
                  calls |-> hl.calls])))

\* The generator object protocol.run() returns, none of its body run yet.
NewGenerator == [state |-> "created", i |-> 0]

\* Protocol.run, resumed with next() from a yield to the next one that yields
\* the marker (i, n) before i is incremented (a mutant).
run_yields_before_increment(w, g) ==
    IF g.state = "created"
    THEN IF validate(w.p) # "none"
         THEN [w |-> w, exc |-> validate(w.p), ret |-> None, calls |-> <<>>,
               g |-> [g EXCEPT !.state = "raised"]]
         ELSE [w |-> [w EXCEPT !.p._context_handler = initialize_context(w.p),
                               !.hobj = SetContext(Outdated(w.hobj),
                                                   SeqSet(w.p._handlers))],
               exc |-> "none", ret |-> Some(<<0, Len(w.p._commands)>>),
               calls |-> <<>>, g |-> [state |-> "suspended", i |-> 0]]
    ELSE IF g.state # "suspended" \/ g.i >= Len(w.p._commands)
    THEN [w |-> w, exc |-> "StopIteration", ret |-> None, calls |-> <<>>,
          g |-> [g EXCEPT !.state = "done"]]
    ELSE Let(_run(w, g.i), LAMBDA r :
             IF r.exc # "none"
             THEN [w |-> r.w, exc |-> r.exc, ret |-> None, calls |-> r.calls,
                   g |-> [g EXCEPT !.state = "raised"]]
             ELSE [w |-> r.w, exc |-> "none",
                   ret |-> Some(<<g.i, Len(r.w.p._commands)>>),
                   calls |-> r.calls, g |-> [g EXCEPT !.i = g.i + 1]])

\* Protocol.run, resumed with next(): the body runs from where generator g
\* is suspended to its next yield (ret is the marker), to its end
\* (StopIteration) or to an exception.  The part before the first yield
\* rebuilds the context and gives it to the attached handlers.
run(w, g) ==
    IF g.state = "created"
    THEN IF validate(w.p) # "none"
         THEN [w |-> w, exc |-> validate(w.p),
               ret |-> Some(validate_message(
                                w.p, "Can't run an incomplete PartialProtocol.")),
               calls |-> <<>>, g |-> [g EXCEPT !.state = "raised"]]
         ELSE [w |-> [w EXCEPT !.p._context_handler = initialize_context(w.p),
                               !.hobj = SetContext(Outdated(w.hobj),
                                                   SeqSet(w.p._handlers))],
               exc |-> "none", ret |-> Some(<<0, Len(w.p._commands)>>),
               calls |-> <<>>, g |-> [state |-> "suspended", i |-> 0]]
    ELSE IF g.state # "suspended" \/ g.i >= Len(w.p._commands)
    THEN [w |-> w, exc |-> "StopIteration", ret |-> None, calls |-> <<>>,
          g |-> [g EXCEPT !.state = "done"]]
    ELSE Let(_run(w, g.i), LAMBDA r :
             IF r.exc # "none"
             THEN [w |-> r.w, exc |-> r.exc, ret |-> None, calls |-> r.calls,
                   g |-> [g EXCEPT !.state = "raised"]]
             ELSE [w |-> r.w, exc |-> "none",
                   ret |-> Some(<<g.i + 1, Len(r.w.p._commands)>>),
                   calls |-> r.calls, g |-> [g EXCEPT !.i = g.i + 1]])

\* The for loop of run_all over generator g: ret is the sequence of markers
\* yielded, calls the calls made.
RECURSIVE RunLoop(_, _, _, _)
RunLoop(w, g, yielded, made) ==
    Let(run(w, g), LAMBDA r :
        IF r.exc = "StopIteration"
        THEN [w |-> r.w, exc |-> "none", ret |-> yielded, calls |-> made]
        ELSE IF r.exc # "none"
        THEN [w |-> r.w, exc |-> r.exc, ret |-> yielded, calls |-> made \o r.calls]
        ELSE RunLoop(r.w, r.g, Append(yielded, r.ret[1]), made \o r.calls))

\* Protocol.run_all
run_all(w) == RunLoop(w, NewGenerator, <<>>, <<>>)

\* Protocol._handler_runthrough
_handler_runthrough(w, handler) ==
    Let(attach_handler([w EXCEPT !.logger_disabled = TRUE, !.p._handlers = <<>>],
                       handler), LAMBDA a :
    Let(run_all(a.w), LAMBDA r :
        [w |-> [r.w EXCEPT !.logger_disabled = FALSE,
                           !.p._handlers = w.p._handlers],
         exc |-> r.exc, ret |-> a.ret, calls |-> r.calls]))

\* Protocol._virtual_run.  Its last statement reads the name `logger', which
\* neither the function nor the module defines.
_virtual_run(w) ==
    Let(w.p._motor_handler, LAMBDA old_motor :
        IF old_motor # None /\ old_motor[1] \notin SeqSet(w.p._handlers)
        THEN WRes(w, "ValueError")
        ELSE
    Let(attach_motor(IF old_motor # None
                     THEN [w EXCEPT !.p._handlers = Remove(@, old_motor[1])]
                     ELSE w, None), LAMBDA a :
    Let(_handler_runthrough(a.w, [instance |-> a.ret[1]]), LAMBDA r :
        IF r.exc # "none" THEN r
        ELSE [w |-> IF old_motor # None
                    THEN [r.w EXCEPT !.p._motor_handler = old_motor]
                    ELSE r.w,
              exc |-> "NameError", ret |-> None, calls |-> r.calls])))

\* Protocol.export that hands the document to the formatter before it bumps
\* the version (a mutant).
export_formats_first(w, validate_run) ==
    IF validate(w.p) # "none" THEN WRes(w, validate(w.p))
    ELSE
    Let(bump_version(w.p, "minor"), LAMBDA b :
        IF b.exc # "none" THEN WRes([w EXCEPT !.p = b.p], b.exc)
        ELSE IF ~validate_run
        THEN [w |-> [w EXCEPT !.p = b.p], exc |-> "none", ret |-> Some(info(w.p)),
              calls |-> <<>>]
        ELSE
    Let(_virtual_run([w EXCEPT !.p = b.p]), LAMBDA v :
        IF v.exc # "none" THEN v
        ELSE [w |-> v.w, exc |-> "none", ret |-> Some(info(w.p)),
              calls |-> v.calls]))

\* Protocol.export.  The formatter's output is the document's info,
\* instruments, containers and instructions.  When validate raises, ret is
\* the message of the exception.
export(w, validate_run) ==
    IF validate(w.p) # "none"
    THEN [w |-> w, exc |-> validate(w.p),
          ret |-> Some(validate_message(
                           w.p, "Can't export invalid PartialProtocol.")),
          calls |-> <<>>]
    ELSE
    Let(bump_version(w.p, "minor"), LAMBDA b :
        IF b.exc # "none" THEN WRes([w EXCEPT !.p = b.p], b.exc)
        ELSE IF ~validate_run
        THEN [w |-> [w EXCEPT !.p = b.p], exc |-> "none", ret |-> Some(info(b.p)),
              calls |-> <<>>]
        ELSE
    Let(_virtual_run([w EXCEPT !.p = b.p]), LAMBDA v :
        IF v.exc # "none" THEN v
        ELSE [w |-> v.w, exc |-> "none", ret |-> Some(info(v.w.p)),
              calls |-> v.calls]))

\* Protocol.run_requirements
run_requirements(w) == _handler_runthrough(w, [class |-> "RequirementsHandler"])

----------------------------------------------------------------------------
(* Inputs. *)

sA1 == <<65, 49>>
sB1 == <<66, 49>>
s11 == <<49, 49>>
sIn == <<73, 110>>
sIN == <<73, 78>>
sOut == <<79, 117, 116>>

\* "container:well"
Addr(container, well) == container \o <<ChColon>> \o well

Args(a) ==
    a @@
    [ul |-> None, ml |-> None, tool |-> None, blowout |-> TRUE, touchtip |-> TRUE,
     repetitions |-> None, defaults |-> EmptyDict]

----------------------------------------------------------------------------
(* State and actions. *)

NoGen == [state |-> "none", i |-> 0]

Init ==
    /\ p = NewProtocol
    /\ hobj = <<>>
    /\ logger_disabled = FALSE
    /\ gen = NoGen
    /\ markers = <<>>
    /\ calls = <<>>
    /\ last = [op |-> "init", exc |-> "none", arg |-> None, ret |-> None, calls |-> <<>>]

\* An operation on the document alone: op was called and ended as r tells.
DocStep(op, arg, r) ==
    /\ p' = r.p
    /\ last' = [op |-> op, exc |-> r.exc, arg |-> arg, ret |-> r.ret, calls |-> <<>>]
    /\ UNCHANGED <<hobj, logger_disabled, gen, markers, calls>>

\* An operation on the document, the handlers and the logger.
WorldStep(op, arg, r) ==
    /\ p' = r.w.p
    /\ hobj' = r.w.hobj
    /\ logger_disabled' = r.w.logger_disabled
    /\ last' = [op |-> op, exc |-> r.exc, arg |-> arg, ret |-> r.ret,
                calls |-> r.calls]
    /\ UNCHANGED <<gen, markers, calls>>

AddContainer(slots, names, labels) ==
    \E slot \in slots, name \in names, label \in labels :
        DocStep("add_container", None, add_container(p, slot, name, label))

AddInstrument(axes, names) ==
    \E axis \in axes, name \in names :
        DocStep("add_instrument", None, add_instrument(p, axis, name))

\* apply_protocol with an operand built by the operations above.
ApplyProtocol(operands) ==
    \E b \in operands :
        /\ Len(p._commands) + Len(b._commands) <= MaxCmds
        /\ \E ord \in Orders(p, b) :
               DocStep("apply_protocol", None, apply_protocol(p, b, ord))

----------------------------------------------------------------------------
(* Documents built by a script of operations on a new Protocol: the         *)
(* operands of a merge.                                                     *)

RunOp(self, o) ==
    IF o.op = "add_container" THEN add_container(self, o.slot, o.name, o.label).p
    ELSE IF o.op = "add_instrument" THEN add_instrument(self, o.axis, o.name).p
    ELSE IF o.op = "transfer" THEN transfer(self, o.a).p
    ELSE self

RECURSIVE Build(_, _)
Build(self, script) ==
    IF Len(script) = 0 THEN self
    ELSE Build(RunOp(self, Head(script)), Tail(script))

OpContainer(slot, name, label) ==
    [op |-> "add_container", slot |-> Str(slot), name |-> name, label |-> label,
     axis |-> "", a |-> EmptyDict]
OpInstrument(axis, name) ==
    [op |-> "add_instrument", slot |-> Str(<<>>), name |-> name, label |-> None,
     axis |-> axis, a |-> EmptyDict]
OpTransfer(a) ==
    [op |-> "transfer", slot |-> Str(<<>>), name |-> "", label |-> None,
     axis |-> "", a |-> Args(a)]

\* Command issuance: op is the method called and a its arguments.
Issue(op, a) ==
    IF op = "transfer" THEN transfer(p, Args(a))
    ELSE IF op = "mix" THEN mix(p, Args(a))
    ELSE IF op = "transfer_group" THEN transfer_group(p, Args(a))
    ELSE IF op = "distribute" THEN distribute(p, Args(a))
    ELSE IF op = "consolidate" THEN consolidate(p, Args(a))
    ELSE add_command(p, a)

IssueCommand(op, inputs) ==
    \E a \in inputs :
        /\ Len(p._commands) < MaxCmds
        /\ DocStep(op, None, Issue(op, a))

\* The caller changes the list an accessor returned: drops its last record,
\* or appends one.
MutateReturned ==
    \E list \in {commands(p), actions(p)} :
        \E newvalue \in {IF Len(list.value) = 0 THEN <<>>
                         ELSE SubSeq(list.value, 1, Len(list.value) - 1),
                         IF Len(list.value) < MaxCmds
                         THEN Append(list.value, [command |-> "mix"])
                         ELSE list.value} :
            DocStep("mutate_returned", None,
                    Res(WriteThrough(p, list, newvalue), "none"))

SetInfo(inputs) ==
    \E kw \in inputs : DocStep("set_info", None, set_info(p, kw @@ NoInfo))

BumpVersion(impacts) ==
    \E impact \in impacts :
        /\ \A k \in 1..Len(p._version) : p._version[k] < MaxVer
        /\ DocStep("bump_version", Some(impact), bump_version(p, impact))

W == World(p, hobj, logger_disabled)

\* The operations that create a handler object, while fewer than max exist.
AttachHandler(kinds, max) ==
    \E kind \in kinds :
        /\ Len(hobj) < max
        /\ WorldStep("attach_handler", None, attach_handler(W, [class |-> kind]))

AttachMotor(max) ==
    /\ Len(hobj) < max
    /\ WorldStep("attach_motor", None, attach_motor(W, None))

Export(flags, max) ==
    \E validate_run \in flags :
        /\ validate_run => Len(hobj) < max
        /\ \A k \in 1..Len(p._version) : p._version[k] < MaxVer
        /\ WorldStep("export", Some(validate_run), export(W, validate_run))

RunRequirements(max) ==
    /\ Len(hobj) < max
    /\ WorldStep("run_requirements", None, run_requirements(W))

RunAll ==
    WorldStep("run_all", None, run_all(W))

\* The logging setup of the application, outside the Protocol.
SetLogging ==
    /\ logger_disabled' = ~logger_disabled
    /\ last' = [op |-> "set_logging", exc |-> "none", arg |-> None, ret |-> None,
                calls |-> <<>>]
    /\ UNCHANGED <<p, hobj, gen, markers, calls>>

\* protocol.run(): a new generator; the one before it, if any, is abandoned.
RunCall ==
    /\ gen' = NewGenerator
    /\ markers' = <<>>
    /\ calls' = <<>>
    /\ last' = [op |-> "run", exc |-> "none", arg |-> None, ret |-> None, calls |-> <<>>]
    /\ UNCHANGED <<p, hobj, logger_disabled>>

\* next(generator): markers and calls are what the generator has yielded and
\* the calls its steps have made.
RunResume ==
    /\ gen.state \in {"created", "suspended"}
    /\ LET r == run(W, gen)
       IN /\ p' = r.w.p
          /\ hobj' = r.w.hobj
          /\ logger_disabled' = r.w.logger_disabled
          /\ gen' = r.g
          /\ calls' = calls \o r.calls
          /\ markers' = IF r.exc = "none" THEN Append(markers, r.ret[1]) ELSE markers
          /\ last' = [op |-> "next", exc |-> r.exc, arg |-> None, ret |-> r.ret,
                      calls |-> r.calls]

\* generator.close(): the caller gives up a generator it has not run to its
\* end; nothing it yielded is kept.
RunClose ==
    /\ gen.state \in {"created", "suspended"}
    /\ gen' = NoGen
    /\ markers' = <<>>
    /\ calls' = <<>>
    /\ last' = [op |-> "close", exc |-> "none", arg |-> None, ret |-> None, calls |-> <<>>]
    /\ UNCHANGED <<p, hobj, logger_disabled>>

\* No generator of the document is waiting to be resumed.
Idle == gen.state \notin {"created", "suspended"}

----------------------------------------------------------------------------
(* Declarations. *)

\* The inputs of add_container stepped under SpecDecl.
DeclSlots == {Str(sA1), Str(sB1), Str(s11)}
DeclNames == {"microplate", "tiprack"}
DeclLabels == {None, Some(sIn), Some(sIN), Some(sOut)}

NextDecl ==
    \/ AddContainer(DeclSlots, DeclNames, DeclLabels)
    \/ AddInstrument({"A", "B"}, {"p10", "p200"})

SpecDecl == Init /\ [][NextDecl]_vars

\* C2: whenever add_container or add_instrument raises, the document's
\* containers, instruments, labels and label-casing maps, and so its hash,
\* are what they were before the call.
C2_DeclarationsAtomic ==
    [][(last'.op \in {"add_container", "add_instrument"} /\ last'.exc # "none")
       => /\ p'._containers = p._containers
          /\ p'._head = p._head
          /\ p'._container_labels = p._container_labels
          /\ p'._label_case = p._label_case
          /\ hash(p') = hash(p)]_vars

\* C4: the label map is a bijection between labels and labelled slots: no
\* slot is the target of more than one label.
C4_LabelsBijective ==
    \A l1, l2 \in DOMAIN p._container_labels :
        p._container_labels[l1] = p._container_labels[l2] => l1 = l2

\* What a call add_container(slot, name, label) that returned leaves in the
\* document for as long as the document lives: the slot holds the type and
\* the label, if one was given, is in use.
Declared(self, slot, name, label) ==
    LET pos == normalize_position(slot)
    IN /\ pos.exc = "none"
       /\ pos.v \in DOMAIN self._containers
       /\ self._containers[pos.v] = name
       /\ label # None => lower(label[1]) \in DOMAIN self._container_labels

\* C21 (as stated): for a valid slot, add_container on a slot holding another
\* type raises ContainerConflict, a label already in use is rejected with
\* ContainerConflict, and a call with the slot and arguments of an earlier
\* call that returned returns and leaves the document as it was.
C21_AddContainerIdempotent ==
    \A slot \in DeclSlots, name \in DeclNames, label \in DeclLabels :
        LET r == add_container(p, slot, name, label)
            pos == normalize_position(slot)
        IN /\ (pos.exc = "none" /\ pos.v \in DOMAIN p._containers
                  /\ p._containers[pos.v] # name)
                => r.exc = "ContainerConflict"
           /\ (pos.exc = "none" /\ label # None
                  /\ lower(label[1]) \in DOMAIN p._container_labels)
                => r.exc = "ContainerConflict"
           /\ Declared(p, slot, name, label)
                => /\ r.exc = "none"
                   /\ r.p._containers = p._containers
                   /\ r.p._container_labels = p._container_labels
                   /\ r.p._label_case = p._label_case
                   /\ hash(r.p) = hash(p)

\* C21 (amended): for a valid slot the two rejections as stated; a call that
\* returns leaves its slot, type and label declared, and no later call takes
\* a container or a label away; repeating a declared call returns and changes nothing when it gives
\* no label, and raises ContainerConflict, changing nothing, when it gives one.
C21_AddContainerIdempotentAmended ==
    /\ [](\A slot \in DeclSlots, name \in DeclNames, label \in DeclLabels :
            LET r == add_container(p, slot, name, label)
                pos == normalize_position(slot)
            IN /\ (pos.exc = "none" /\ pos.v \in DOMAIN p._containers
                      /\ p._containers[pos.v] # name)
                    => r.exc = "ContainerConflict"
               /\ (pos.exc = "none" /\ label # None
                      /\ lower(label[1]) \in DOMAIN p._container_labels)
                    => r.exc = "ContainerConflict"
               /\ r.exc = "none" => Declared(r.p, slot, name, label)
               /\ Declared(p, slot, name, label)
                    => /\ r.exc = (IF label = None THEN "none"
                                   ELSE "ContainerConflict")
                       /\ r.p = p)
    /\ [][/\ \A s \in DOMAIN p._containers :
                s \in DOMAIN p'._containers /\ p'._containers[s] = p._containers[s]
           /\ DOMAIN p._container_labels \subseteq DOMAIN p'._container_labels]_vars

\* A labelled and an unlabelled container are declared, and the latest call
\* was rejected for its label although its slot and type were those declared.
C21_Witness ==
    /\ last.op = "add_container"
    /\ last.exc = "ContainerConflict"
    /\ Declared(p, Str(sA1), "microplate", Some(sIn))
    /\ Declared(p, Str(sB1), "tiprack", None)
    /\ DOMAIN p._container_labels = {lower(sIn)}
    /\ DOMAIN p._containers = {<<0, 0>>, <<1, 0>>}

----------------------------------------------------------------------------
(* Command issuance. *)

Item(args, opts) == [args |-> args, opts |-> opts]

TransferInputs ==
    {[start |-> Addr(sA1, sA1), end |-> Addr(sB1, sA1), ul |-> Some(5)],
     [start |-> Addr(sIn, sA1), end |-> Addr(sA1, sB1), ul |-> Some(5),
      tool |-> Some("p200")],
     [start |-> Addr(sA1, sA1), end |-> Addr(sB1, sA1), ul |-> Some(0)],
     [start |-> sA1, end |-> Addr(sB1, sA1), ul |-> Some(5)]}

MixInputs ==
    {[start |-> Addr(sA1, sA1), ul |-> Some(50), repetitions |-> Some(3)],
     [start |-> Addr(sA1, sA1), ul |-> Some(5), ml |-> Some(1)]}

GroupInputs ==
    {[wells |-> <<Item(<<Addr(sA1, sA1), Addr(sB1, sA1)>>, Some([ul |-> 3])),
                  Item(<<Addr(sIn, sB1), Addr(sB1, sB1)>>, None)>>,
      defaults |-> [ul |-> 10], tool |-> Some("p10")],
     [wells |-> <<>>, defaults |-> [ul |-> 10]]}

DistributeInputs ==
    {[start |-> Addr(sA1, sA1),
      wells |-> <<Item(<<Addr(sB1, sA1)>>, None)>>,
      defaults |-> [ul |-> 5, blowout |-> FALSE]],
     [start |-> Addr(sA1, sA1),
      wells |-> <<Item(<<Addr(sB1, sA1)>>, None)>>]}

ConsolidateInputs ==
    {[end |-> Addr(sB1, sA1),
      wells |-> <<Item(<<Addr(sA1, sA1)>>, Some([ml |-> 1]))>>],
     [end |-> Addr(sB1, sA1),
      wells |-> <<Item(<<Addr(sA1, sA1)>>, None), Item(<<Addr(sA1, sB1)>>, None)>>,
      defaults |-> [ul |-> 30]]}

CommandInputs ==
    {[command |-> "transfer", tool |-> "p10", volume |-> 7,
      start |-> <<<<0, 0>>, <<0, 0>>>>, end |-> <<<<1, 0>>, <<0, 0>>>>],
     [command |-> "home"]}

CommandOps ==
    {"transfer", "transfer_group", "distribute", "consolidate", "mix", "add_command"}

NextCmd ==
    \/ AddContainer({Str(sA1), Str(sB1)}, {"microplate"}, {None, Some(sIn)})
    \/ AddInstrument({"A"}, {"p10", "p200"})
    \/ IssueCommand("transfer", TransferInputs)
    \/ IssueCommand("mix", MixInputs)
    \/ IssueCommand("transfer_group", GroupInputs)
    \/ IssueCommand("distribute", DistributeInputs)
    \/ IssueCommand("consolidate", ConsolidateInputs)
    \/ IssueCommand("add_command", CommandInputs)

SpecCmd == Init /\ [][NextCmd]_vars

\* C1: a command-issuing operation that raises leaves the command log as it
\* was; one that returns leaves the previous log with exactly one new record,
\* of that command, appended at the end.
C1_CommandAppendedOnlyIfValid ==
    [][/\ (last'.op \in CommandOps /\ last'.exc # "none")
            => p'._commands = p._commands
       /\ (last'.op \in CommandOps /\ last'.exc = "none")
            => /\ Len(p'._commands) = Len(p._commands) + 1
               /\ SubSeq(p'._commands, 1, Len(p._commands)) = p._commands
       /\ (last'.op \in CommandOps \ {"add_command"} /\ last'.exc = "none")
            => p'._commands[Len(p'._commands)].command = last'.op]_vars

\* A dry run in the ContextHandler raised, and issuing calls have returned.
C1_Witness ==
    /\ last.op \in CommandOps
    /\ last.exc \in {"ContainerMissing", "InstrumentMissing"}
    /\ Len(p._commands) >= 1

----------------------------------------------------------------------------
(* The operations of a document that could touch its log, on small inputs;  *)
(* the issuing methods not repeated here are stepped under SpecCmd.         *)

MaxLogHandlers == 1

Transfer5 == [start |-> Addr(sA1, sA1), end |-> Addr(sA1, sB1), ul |-> Some(5)]

LogOperands ==
    {Build(NewProtocol, s) : s \in
        {<<OpContainer(sA1, "microplate", None), OpInstrument("A", "p10"),
           OpTransfer(Transfer5)>>}}

NextLog ==
    \/ AddContainer({Str(sA1)}, {"microplate"}, {None})
    \/ AddInstrument({"A"}, {"p10"})
    \/ IssueCommand("transfer", {Transfer5})
    \/ IssueCommand("distribute",
           {[start |-> Addr(sA1, sA1), wells |-> <<Item(<<Addr(sA1, sB1)>>, None)>>,
             defaults |-> [ul |-> 5]]})
    \/ MutateReturned
    \/ SetInfo({[name |-> Some("n")]})
    \/ BumpVersion({"minor"})
    \/ ApplyProtocol(LogOperands)
    \/ AttachHandler({"ProtocolHandler"}, MaxLogHandlers)
    \/ RunAll
    \/ Export({FALSE, TRUE}, MaxLogHandlers)
    \/ RunRequirements(MaxLogHandlers)

SpecLog == Init /\ [][NextLog]_vars

IsPrefix(s, t) == Len(s) <= Len(t) /\ SubSeq(t, 1, Len(s)) = s

\* C3: the command log is append-only: across every operation the log before
\* it is a prefix of the log after it.
C3_LogAppendOnly == [][IsPrefix(p._commands, p'._commands)]_vars

\* The caller has changed a list the accessors returned, of a document whose
\* log is full.
C3_Witness ==
    /\ last.op = "mutate_returned"
    /\ Len(p._commands) = MaxCmds

----------------------------------------------------------------------------
(* Runs: a document is written, handlers are attached, and run() generators *)
(* are created, resumed, closed and replaced.  Commands may be issued while  *)
(* a generator is suspended; declarations, attachments and run_all wait     *)
(* until none is.                                                           *)

RunMix == [start |-> Addr(sA1, sA1), ul |-> Some(5)]

NextRun ==
    \/ Idle /\ AddContainer({Str(sA1)}, {"microplate"}, {None})
    \/ Idle /\ AddInstrument({"A"}, {"p10", "p200"})
    \/ IssueCommand("transfer", {Transfer5})
    \/ IssueCommand("mix", {RunMix})
    \/ Idle /\ AttachHandler({"ProtocolHandler", "NoMixHandler"}, MaxHandlers)
    \/ Idle /\ RunAll
    \/ RunCall
    \/ RunResume
    \/ RunClose

SpecRun == Init /\ [][NextRun]_vars

\* The document's log is what it was when the generator first ran: the log
\* only grows, and the first marker holds its length then.
Unmodified ==
    Len(markers) >= 1 /\ Len(p._commands) = markers[1][2]

IsContextCall(e) == e[1] = 0

\* The calls the generator's steps have made on the context: the commands
\* executed.
Executed == SelectSeq(calls, IsContextCall)

\* C5: the markers a generator has yielded are (0,n), (1,n), ... in order,
\* n the number of commands of the unmodified document; while it is
\* suspended after marker (k,n) exactly commands 1..k have been executed, in
\* log order and once each; when it has run to its end the last marker is
\* (n,n).
C5_RunMarkers ==
    (gen.state \in {"suspended", "done"} /\ Unmodified)
    => /\ markers = [j \in 1..Len(markers) |-> <<j - 1, Len(p._commands)>>]
       /\ Executed = [j \in 1..(Len(markers) - 1) |->
                         <<0, p._commands[j].command, j - 1>>]
       /\ gen.state = "done" => Len(markers) = Len(p._commands) + 1

\* A generator is suspended part-way through a document of several commands.
C5_Witness ==
    /\ gen.state = "suspended"
    /\ Unmodified
    /\ Len(p._commands) = MaxCmds
    /\ Len(markers) = MaxCmds

\* The handler calls of one step that no exception cuts short: for each
\* handler, in order, before_each, the command's method, after_each.
RECURSIVE StepCalls(_, _, _)
StepCalls(handlers, command, index) ==
    IF Len(handlers) = 0 THEN <<>>
    ELSE << <<Head(handlers), "before_each", index>>,
            <<Head(handlers), command, index>>,
            <<Head(handlers), "after_each", index>> >>
         \o StepCalls(Tail(handlers), command, index)

\* C6: the calls one run step makes for command c are the validation of c in
\* the context first and then, handler by handler in attachment order,
\* before_each, the method named after c and after_each; a step that returns
\* has made all of them, and a step whose validation raises has made no
\* handler call.
C6_StepOrder ==
    [][(last'.op = "next" /\ gen.state = "suspended" /\ last'.exc # "StopIteration")
       => LET c == p._commands[gen.i + 1]
              step == SubSeq(calls', Len(calls) + 1, Len(calls'))
              validation == << <<0, c.command, gen.i>> >>
              full == validation \o StepCalls(p._handlers, c.command, gen.i)
          IN /\ IsPrefix(calls, calls')
             /\ IsPrefix(validation, step)
             /\ IsPrefix(step, full)
             /\ last'.exc = "none" => step = full
             /\ CtxCommand(p._context_handler, c).exc # "none"
                    => step = validation]_vars

\* Every command of a full log has been stepped through with as many
\* handlers attached as the bound allows.
C6_Witness ==
    /\ last.op = "next"
    /\ last.exc = "none"
    /\ gen.i = MaxCmds
    /\ Len(p._handlers) = MaxHandlers
    /\ Len(calls) = MaxCmds * (1 + 3 * MaxHandlers)

\* C7: a run that has just started has a new ContextHandler holding exactly
\* the document's containers and instruments, and every attached handler
\* has been given it; a full run repeated on the unmodified document yields
\* the same markers and makes the same calls.
C7_RunRestartable ==
    /\ (last.op = "next" /\ last.exc = "none" /\ gen.i = 0)
           => /\ p._context_handler =
                     [NewContext EXCEPT !.containers = p._containers,
                                        !.instruments = p._head]
              /\ \A k \in 1..Len(p._handlers) :
                     hobj[p._handlers[k]].context = "current"
    /\ (last.op = "run_all" /\ last.exc = "none")
           => /\ run_all(W).exc = "none"
              /\ run_all(W).ret = last.ret
              /\ run_all(W).calls = last.calls

\* A full run of a document with a full log and handlers attached has ended.
C7_Witness ==
    /\ last.op = "run_all"
    /\ last.exc = "none"
    /\ Len(last.ret) = MaxCmds + 1
    /\ Len(p._handlers) >= 1

----------------------------------------------------------------------------
(* Virtual runs: export with validate_run and run_requirements, on          *)
(* documents with handlers and a motor attached.                            *)

NextVirtual ==
    \/ AddContainer({Str(sA1)}, {"microplate", "tiprack"}, {None})
    \/ AddInstrument({"A"}, {"p10"})
    \/ IssueCommand("transfer", {Transfer5})
    \/ AttachHandler({"ProtocolHandler"}, 1)
    \/ AttachMotor(MaxHandlers)
    \/ Export({FALSE, TRUE}, MaxHandlers)
    \/ RunRequirements(MaxHandlers)
    \/ SetLogging

SpecVirtual == Init /\ [][NextVirtual]_vars

\* C8: across export(validate_run=True) and across a read of
\* run_requirements, whether it returns or raises, the list of attached
\* handlers, the motor handler and the logger's flag are unchanged, and no
\* handler attached before receives a call.
C8_VirtualRunScoped ==
    [][((last'.op = "export" /\ last'.arg = Some(TRUE)) \/ last'.op = "run_requirements")
       => /\ p'._handlers = p._handlers
          /\ p'._motor_handler = p._motor_handler
          /\ logger_disabled' = logger_disabled
          /\ \A k \in 1..Len(last'.calls) :
                 last'.calls[k][1] \notin SeqSet(p._handlers)]_vars

----------------------------------------------------------------------------
(* Versions: structural changes, set_info with a version, and bumps.        *)

sV010 == <<48, 46, 49, 46, 48>>
sV01 == <<48, 46, 49>>
sVx == <<120>>

NextVersion ==
    \/ AddContainer({Str(sA1), Str(sB1)}, {"microplate"}, {None})
    \/ AddInstrument({"A", "B"}, {"p10"})
    \/ SetInfo({[version |-> Some(sV010)], [version |-> Some(sV01)],
                [version |-> Some(sVx)], [name |-> Some("n")]})
    \/ BumpVersion({"minor", "feature", "major", "patch"})

SpecVersion == Init /\ [][NextVersion]_vars

\* C9: a bump_version call that directly follows one that returned, whatever
\* the impacts given, returns the same version string and changes neither
\* the version nor the hash snapshot.
C9_BumpIdempotent ==
    [][(last.op = "bump_version" /\ last.exc = "none" /\ last'.op = "bump_version")
       => /\ last'.exc = "none"
          /\ last'.ret = last.ret
          /\ p'._version = p._version
          /\ p'._version_hash = p._version_hash]_vars

\* A bump_version call with an impact that is none of the three has
\* returned: a bump before it had taken the snapshot.
C9_Witness ==
    /\ last.op = "bump_version"
    /\ last.exc = "none"
    /\ last.arg = Some("patch")
    /\ p._version = <<0, 0, 1>>

\* C10: when the hash differs from the snapshot, bump_version on (M,F,m)
\* sets the version to (M,F,m+1) for minor, (M,F+1,0) for feature and
\* (M+1,0,0) for major and the snapshot to the hash; any other impact raises
\* ValueError and leaves both as they were.
C10_BumpArithmetic ==
    [][(last'.op = "bump_version" /\ Some(hash(p)) # p._version_hash
            /\ Len(p._version) = 3)
       => LET M == p._version[1]
              F == p._version[2]
              m == p._version[3]
              impact == last'.arg[1]
          IN IF impact \in {"minor", "feature", "major"}
             THEN /\ last'.exc = "none"
                  /\ p'._version = IF impact = "minor" THEN <<M, F, m + 1>>
                                   ELSE IF impact = "feature" THEN <<M, F + 1, 0>>
                                   ELSE <<M + 1, 0, 0>>
                  /\ p'._version_hash = Some(hash(p))
                  /\ last'.ret = Some(version(p'))
             ELSE /\ last'.exc = "ValueError"
                  /\ p'._version = p._version
                  /\ p'._version_hash = p._version_hash]_vars

\* A feature bump of a document at 0.1.m has returned 0.2.0.
C10_Witness ==
    /\ last.op = "bump_version"
    /\ last.arg = Some("feature")
    /\ last.exc = "none"
    /\ p._version = <<0, 2, 0>>
    /\ p._version_hash = Some(hash(p))

----------------------------------------------------------------------------
(* Export: documents are written, versioned by hand or not, and exported.   *)

s001 == <<48, 46, 48, 46, 49>>

NextExport ==
    \/ AddContainer({Str(sA1)}, {"microplate"}, {None, Some(sIn)})
    \/ AddInstrument({"A"}, {"p10"})
    \/ IssueCommand("transfer", {Transfer5})
    \/ SetInfo({[version |-> Some(sV010)], [name |-> Some("n")]})
    \/ BumpVersion({"minor", "feature"})
    \/ AttachMotor(MaxHandlers)
    \/ Export({FALSE, TRUE}, MaxHandlers)

SpecExport == Init /\ [][NextExport]_vars

\* C11: an export that returns leaves the hash snapshot equal to the
\* document's hash and has not changed that hash; the version it writes is
\* the document's version after the bump; a document whose version was never
\* bumped or set is written as 0.0.1; and an export that directly follows an
\* export that returned writes the same version.
C11_ExportBumps ==
    [][(last'.op = "export" /\ last'.exc = "none")
       => /\ p'._version_hash = Some(hash(p'))
          /\ hash(p') = hash(p)
          /\ last'.ret[1].version = Some(version(p'))
          /\ last'.ret[1].version_hash = p'._version_hash
          /\ p._version_hash = None => last'.ret[1].version = Some(s001)
          /\ (last.op = "export" /\ last.exc = "none")
                 => last'.ret[1].version = last.ret[1].version]_vars

\* A document holding a command, never bumped before, has been exported.
C11_Witness ==
    /\ last.op = "export"
    /\ last.exc = "none"
    /\ Len(p._commands) > 0
    /\ last.ret[1].version = Some(s001)
    /\ p._version = <<0, 0, 1>>

----------------------------------------------------------------------------
(* Equality: the document is compared with documents written another way.   *)

EqRefs ==
    {Build(NewProtocol, s) : s \in
        {<<OpInstrument("A", "p10"), OpContainer(sA1, "microplate", Some(sIn))>>,
         <<OpInstrument("A", "p10"), OpContainer(sA1, "microplate", Some(sIN))>>,
         <<OpContainer(sA1, "microplate", Some(sIn)), OpInstrument("A", "p10"),
           OpTransfer(Transfer5)>>}}

NextEq ==
    \/ AddContainer({Str(sA1)}, {"microplate"}, {Some(sIn), Some(sIN)})
    \/ AddInstrument({"A"}, {"p10", "p200"})
    \/ IssueCommand("transfer", {Transfer5})
    \/ SetInfo({[name |-> Some("n")], [author |-> Some("a")]})
    \/ BumpVersion({"minor"})
    \/ AttachHandler({"ProtocolHandler"}, 1)

SpecEq == Init /\ [][NextEq]_vars

\* The six structural fields of two documents are equal.
SameStructure(a, b) ==
    /\ a._ingredients = b._ingredients
    /\ a._head = b._head
    /\ a._container_labels = b._container_labels
    /\ a._label_case = b._label_case
    /\ a._containers = b._containers
    /\ a._commands = b._commands

\* C12: after every step the document compares equal to a document written
\* another way exactly when their ingredients, instruments, labels, label
\* casing, containers and command logs are equal; a step that changes only
\* metadata or attaches a handler leaves the document equal to what it was;
\* and a step that changes the instrument type on an axis leaves it unequal
\* to what it was.
C12_EqualityStructural ==
    [][/\ \A d \in EqRefs \cup {p} : __eq__(p', d) <=> SameStructure(p', d)
       /\ last'.op \in {"set_info", "bump_version", "attach_handler"} => __eq__(p', p)
       /\ (\E axis \in DOMAIN p._head : p'._head[axis] # p._head[axis])
              => ~__eq__(p', p)]_vars

\* The document equals one written in another order, while it has a name,
\* another version and a handler attached; its instrument came last.
C12_Witness ==
    /\ last.op = "add_instrument"
    /\ p._name # None
    /\ Len(p._handlers) > 0
    /\ \E d \in EqRefs : __eq__(p, d) /\ d._version # p._version /\ d._name = None

----------------------------------------------------------------------------
(* Serialization.  The JSON formatter and loader are outside protocol.py;  *)
(* what they write and read is the canonical document shape: the info, the  *)
(* instruments by axis, one record per container with its slot, type and    *)
(* label, and the instructions with their addresses in human form.  The     *)
(* order of a JSON object's or list's members is not modelled for the       *)
(* instruments and containers.                                              *)

\* "{}".format(position) for a tuple of two integers: "(c, r)".
TupleFormat(pos) ==
    <<40>> \o IntToStr(pos[1]) \o <<44, 32>> \o IntToStr(pos[2]) \o <<41>>

\* Protocol.get_container_label: the display form of the first label found
\* for the position; first[slot] is the label the iteration meets first.
get_container_label(self, position, first) ==
    IF position \in DOMAIN first THEN Some(self._label_case[first[position]])
    ELSE None

\* Protocol.humanize_address.  address is <<start, end>>, start a position
\* (Tup or Str) or a label (Str).
humanize_address(self, address, first) ==
    Let(normalize_position(address[1]), LAMBDA start :
    Let(humanize_position(address[2]), LAMBDA end :
        IF start.exc = "none"
        THEN Let(get_container_label(self, start.v, first), LAMBDA label :
                 Ok((IF label # None THEN label[1] ELSE TupleFormat(start.v))
                    \o <<ChColon>> \o end))
        ELSE IF start.exc # "ValueError" THEN Raise(start.exc)
        ELSE IF lower(address[1].v) \notin DOMAIN self._container_labels
        THEN Raise("ContainerMissing")
        ELSE Ok((IF lower(address[1].v) \in DOMAIN self._label_case
                 THEN self._label_case[lower(address[1].v)] ELSE address[1].v)
                \o <<ChColon>> \o end)))

\* One instruction of the document: the command record with its addresses
\* humanized and `reps' written as `repetitions'.
JSONInstruction(self, c, first) ==
    [k \in ((DOMAIN c) \ {"reps"}) \cup (IF "reps" \in DOMAIN c THEN {"repetitions"} ELSE {})
       |-> IF k \in {"start", "end"}
           THEN humanize_address(self, <<Tup(c[k][1]), c[k][2]>>, first).v
           ELSE IF k = "repetitions" THEN c.reps
           ELSE c[k]]

\* JSONFormatter(protocol).export(), but for the info.
JSONFormatter(self, first) ==
    [instruments |-> {[axis |-> axis, name |-> self._head[axis]] : axis \in DOMAIN self._head},
     containers |-> {[slot |-> humanize_position(slot), name |-> self._containers[slot],
                      label |-> get_container_label(self, slot, first)]
                     : slot \in DOMAIN self._containers},
     instructions |-> [i \in 1..Len(self._commands) |->
                          JSONInstruction(self, self._commands[i], first)]]

RECURSIVE LoadInstruments(_, _)
LoadInstruments(self, todo) ==
    IF todo = {} THEN Res(self, "none")
    ELSE Let(CHOOSE e \in todo : TRUE, LAMBDA e :
         Let(add_instrument(self, e.axis, e.name), LAMBDA r :
             IF r.exc # "none" THEN r ELSE LoadInstruments(r.p, todo \ {e})))

RECURSIVE LoadContainers(_, _)
LoadContainers(self, todo) ==
    IF todo = {} THEN Res(self, "none")
    ELSE Let(CHOOSE e \in todo : TRUE, LAMBDA e :
         Let(add_container(self, Str(e.slot), e.name, e.label), LAMBDA r :
             IF r.exc # "none" THEN r ELSE LoadContainers(r.p, todo \ {e})))

RECURSIVE LoadInstructions(_, _)
LoadInstructions(self, todo) ==
    IF Len(todo) = 0 THEN Res(self, "none")
    ELSE Let(Head(todo), LAMBDA c :
         Let(IF c.command = "transfer"
             THEN transfer(self, Args([start |-> c.start, end |-> c.end,
                                       ul |-> Some(c.volume), tool |-> Some(c.tool),
                                       blowout |-> c.blowout, touchtip |-> c.touchtip]))
             ELSE IF c.command = "mix"
             THEN mix(self, Args([start |-> c.start, ul |-> Some(c.volume),
                                  tool |-> Some(c.tool), repetitions |-> c.repetitions,
                                  blowout |-> c.blowout, touchtip |-> c.touchtip]))
             ELSE Res(self, "NotImplementedError"), LAMBDA r :
             IF r.exc # "none" THEN r ELSE LoadInstructions(r.p, Tail(todo))))

\* JSONLoader(json).protocol: a new Protocol given the instruments, the
\* containers and the instructions through its own methods.
JSONLoader(json) ==
    Let(LoadInstruments(NewProtocol, json.instruments), LAMBDA i :
        IF i.exc # "none" THEN i
        ELSE
    Let(LoadContainers(i.p, json.containers), LAMBDA c :
        IF c.exc # "none" THEN c
        ELSE LoadInstructions(c.p, json.instructions)))

\* export(JSONFormatter) of the document, then JSONLoader of what it wrote.
LoadExported ==
    /\ \A k \in 1..Len(p._version) : p._version[k] < MaxVer
    /\ \E first \in Inverses(p._container_labels) :
           LET e == export(W, FALSE)
               json == JSONFormatter(e.w.p, first)
               l == JSONLoader(json)
           IN /\ e.exc = "none"
              /\ p' = e.w.p
              /\ last' = [op |-> "load", exc |-> l.exc, arg |-> Some(json),
                          ret |-> IF l.exc = "none" THEN Some(l.p) ELSE None,
                          calls |-> <<>>]
              /\ UNCHANGED <<hobj, logger_disabled, gen, markers, calls>>

RoundMix == [start |-> Addr(sIn, sA1), ul |-> Some(5)]

NextRound ==
    \/ AddContainer({Str(sA1), Str(sB1)}, {"microplate"}, {None, Some(sIn)})
    \/ AddInstrument({"A"}, {"p10", "p200"})
    \/ IssueCommand("transfer", {Transfer5})
    \/ IssueCommand("mix", {RoundMix})
    \/ LoadExported

SpecRound == Init /\ [][NextRound]_vars

\* C13: loading what export wrote returns a document that is hash-equal to
\* the one exported, and exporting the loaded document writes the same
\* instruments, containers and instructions.
C13_RoundTrip ==
    last.op = "load"
    => /\ last.exc = "none"
       /\ __eq__(last.ret[1], p)
       /\ \A first \in Inverses(last.ret[1]._container_labels) :
              JSONFormatter(last.ret[1], first) = last.arg[1]

----------------------------------------------------------------------------
(* Merges: the document A is written step by step and merged with operands  *)
(* B written on their own, by A + B (a new document) and by                 *)
(* A.apply_protocol(B) (in place).                                          *)

Transfer50 == [start |-> Addr(sB1, sA1), end |-> Addr(sB1, sB1), ul |-> Some(50)]

MergeOperands ==
    {Build(NewProtocol, s) : s \in
        {<<OpContainer(sA1, "microplate", Some(sIN)), OpInstrument("A", "p10"),
           OpTransfer(Transfer5)>>,
         <<OpContainer(sA1, "tiprack", None), OpInstrument("A", "p200")>>,
         <<OpContainer(sB1, "microplate", Some(sIn))>>,
         <<OpContainer(sA1, "microplate", Some(sOut)), OpInstrument("A", "p200")>>,
         <<OpInstrument("A", "p200")>>,
         <<OpContainer(sB1, "microplate", Some(sOut)), OpInstrument("B", "p200"),
           OpTransfer(Transfer50)>>,
         <<OpContainer(sB1, "microplate", Some(sOut)), OpInstrument("B", "p200")>>,
         <<OpContainer(sA1, "microplate", None), OpInstrument("A", "p10"),
           OpTransfer(Transfer5), OpInstrument("A", "p200")>>}}
    \cup {set_info(Build(NewProtocol, <<OpContainer(sB1, "microplate", None)>>),
                   [name |-> Some("m"), created |-> Some("t2")] @@ NoInfo).p}

\* c = a + b, for the document a and an operand b.  The new document is what
\* the call returns; a and b are only read.
Add(operands) ==
    \E b \in operands :
        \E ord1 \in Orders(NewProtocol, p) :
            LET r1 == apply_protocol(NewProtocol, p, ord1)
            IN \E ord2 \in Orders(r1.p, b) :
                   LET r == __add__(p, b, ord1, ord2)
                   IN /\ Len(p._commands) + Len(b._commands) <= MaxCmds
                      /\ last' = [op |-> "__add__", exc |-> r.exc, arg |-> Some(b),
                                  ret |-> IF r.exc = "none" THEN Some(r.p) ELSE None,
                                  calls |-> <<>>]
                      /\ UNCHANGED <<p, hobj, logger_disabled, gen, markers, calls>>

NextMerge ==
    \/ AddContainer({Str(sA1)}, {"microplate", "tiprack"}, {None, Some(sIn)})
    \/ AddInstrument({"A"}, {"p10", "p200"})
    \/ IssueCommand("transfer", {Transfer5})
    \/ SetInfo({[name |-> Some("n"), created |-> Some("t1")]})
    \/ Add(MergeOperands)

SpecMerge == Init /\ [][NextMerge]_vars

\* The operands and the result of the latest A + B: A is the document, which
\* the call left as it was.
MergedB == last.arg[1]
MergedC == last.ret[1]

\* Re-applying the document's own declarations and commands to a new
\* Protocol, the first half of A + B, returns.
Replays(a) ==
    \A ord \in Orders(NewProtocol, a) : apply_protocol(NewProtocol, a, ord).exc = "none"

SlotConflict(a, b) ==
    \E slot \in (DOMAIN a._containers) \cap (DOMAIN b._containers) :
        a._containers[slot] # b._containers[slot]

\* m holds every key of a and of b with its value there.
UnionOf(m, a, b) ==
    /\ DOMAIN m = (DOMAIN a) \cup (DOMAIN b)
    /\ \A k \in DOMAIN a : m[k] = a[k]
    /\ \A k \in DOMAIN b : m[k] = b[k]

AxisConflict(a, b) ==
    \E axis \in (DOMAIN a._head) \cap (DOMAIN b._head) : a._head[axis] # b._head[axis]

\* Some slot has a label in a and another label in b.
SlotLabelConflict(a, b) ==
    \E la \in DOMAIN a._container_labels, lb \in DOMAIN b._container_labels :
        a._container_labels[la] = b._container_labels[lb] /\ la # lb

C16_LabelsMerged ==
    last.op = "__add__"
    => IF SlotLabelConflict(p, MergedB)
       THEN last.exc \in {"ContainerConflict", "InstrumentConflict"}
       ELSE last.exc = "none"
            => /\ UnionOf(MergedC._container_labels, p._container_labels,
                          MergedB._container_labels)
               /\ \A l \in (DOMAIN p._label_case) \cap (DOMAIN MergedB._label_case) :
                      MergedC._label_case[l] = MergedB._label_case[l]

\* C17: after an A + B that returns, each of name, description, author,
\* created, updated and version is B's when B has it set and A's when B has
\* it unset.
C17_MetadataLastWriter ==
    (last.op = "__add__" /\ last.exc = "none")
    => /\ \A f \in {"_name", "_description", "_author", "_created", "_updated"} :
              MergedC[f] = IF MergedB[f] # None THEN MergedB[f] ELSE p[f]
       /\ MergedC._version = MergedB._version

\* A context holding the containers and instruments of both documents.
CombinedContext(a, b) ==
    [NewContext EXCEPT !.containers = Update(a._containers, b._containers),
                       !.instruments = Update(a._head, b._head)]

\* C18: after an A + B that returns, the merged log is A's commands followed
\* by B's, each once and in order; the merged document's context holds the
\* containers and instruments of both, has run every command of the log, and
\* accepts each of them; and when a command of B is invalid in the context
\* of both documents' declarations, A + B raises.
C18_CommandsReplayed ==
    last.op = "__add__"
    => /\ last.exc = "none"
          => /\ MergedC._commands = p._commands \o MergedB._commands
             /\ MergedC._context_handler.containers
                    = Update(p._containers, MergedB._containers)
             /\ MergedC._context_handler.instruments = Update(p._head, MergedB._head)
             /\ MergedC._context_handler.ran = Len(MergedC._commands)
             /\ \A i \in 1..Len(MergedC._commands) :
                    CtxCommand(MergedC._context_handler, MergedC._commands[i]).exc = "none"
       /\ (\E i \in 1..Len(MergedB._commands) :
               CtxCommand(CombinedContext(p, MergedB), MergedB._commands[i]).exc # "none")
          => last.exc # "none"

\* A + B has returned, A and B holding a command each.
C18_Witness ==
    /\ last.op = "__add__"
    /\ last.exc = "none"
    /\ Len(p._commands) > 0
    /\ Len(MergedB._commands) > 0
    /\ Len(MergedC._commands) = MaxCmds

\* The documents declare no common slot, label or axis.
Disjoint(a, b) ==
    /\ (DOMAIN a._containers) \cap (DOMAIN b._containers) = {}
    /\ Values(a._container_labels) \cap Values(b._container_labels) = {}
    /\ (DOMAIN a._container_labels) \cap (DOMAIN b._container_labels) = {}
    /\ (DOMAIN a._head) \cap (DOMAIN b._head) = {}

\* What b + a may return or raise, over the orders in which the dicts are
\* walked.
Reverse(a, b) ==
    UNION {{__add__(b, a, ord1, ord2) :
                ord2 \in Orders(apply_protocol(NewProtocol, b, ord1).p, a)}
           : ord1 \in Orders(NewProtocol, b)}

\* C19 as stated: for A and B with no common slot, label or axis, whether or
\* not they hold commands, A + B and B + A, when both return, are hash-equal.
C19_MergeCommutes ==
    (last.op = "__add__" /\ Disjoint(p, MergedB) /\ last.exc = "none")
    => \A r \in Reverse(p, MergedB) : r.exc = "none" => __eq__(MergedC, r.p)

\* C19, amended: for A and B with no common slot, label or axis, of which at
\* most one holds commands, A + B and B + A, when both return, are
\* hash-equal.
C19_MergeCommutesAmended ==
    (last.op = "__add__" /\ Disjoint(p, MergedB) /\ last.exc = "none"
         /\ (Len(p._commands) = 0 \/ Len(MergedB._commands) = 0))
    => \A r \in Reverse(p, MergedB) : r.exc = "none" => __eq__(MergedC, r.p)

\* A + B has returned for disjoint documents with containers, labels and
\* instruments each, A holding commands, and B + A returns too.
C19_Witness ==
    /\ last.op = "__add__"
    /\ last.exc = "none"
    /\ Disjoint(p, MergedB)
    /\ Len(p._commands) > 0
    /\ Len(MergedB._commands) = 0
    /\ p._container_labels # EmptyDict
    /\ MergedB._container_labels # EmptyDict
    /\ MergedB._head # EmptyDict
    /\ \E r \in Reverse(p, MergedB) : r.exc = "none"

----------------------------------------------------------------------------
(* Merges in place and merges into a new document, side by side.            *)

ApplyOperands ==
    {Build(NewProtocol, s) : s \in
        {<<OpContainer(sB1, "microplate", None), OpContainer(sA1, "tiprack", None),
           OpInstrument("A", "p200")>>,
         <<OpContainer(sB1, "microplate", Some(sOut))>>}}

NextApply ==
    \/ AddContainer({Str(sA1)}, {"microplate", "tiprack"}, {None})
    \/ AddInstrument({"A"}, {"p10", "p200"})
    \/ IssueCommand("transfer", {Transfer5})
    \/ SetInfo({[created |-> Some("t1")]})
    \/ Add(ApplyOperands)
    \/ ApplyProtocol(ApplyOperands)

SpecApply == Init /\ [][NextApply]_vars

\* The metadata and the structural fields of two documents are equal.
SameDocument(a, b) ==
    /\ SameStructure(a, b)
    /\ \A f \in {"_name", "_description", "_author", "_created", "_updated",
                 "_version"} : a[f] = b[f]

\* C20: a merge that raises, A + B or A.apply_protocol(B), leaves the
\* document with the metadata, containers, labels, instruments and command
\* log it had and returns no document; an A + B that returns leaves the
\* document as it was too.
C20_MergeAtomic ==
    [][last'.op \in {"__add__", "apply_protocol"}
       => /\ last'.exc # "none" => (SameDocument(p', p) /\ last'.ret = None)
          /\ last'.op = "__add__" => SameDocument(p', p)]_vars

----------------------------------------------------------------------------
(* Volumes: _normalize_volume on integer arguments, and transfers that give *)
(* one volume in microlitres and in millilitres.                            *)

MaxUl == 5
MaxMl == 2

Opt(S) == {None} \cup {Some(v) : v \in S}

VolumeUl == Opt((0..MaxUl) \cup {1000 * m : m \in 1..MaxMl})
VolumeMl == Opt(0..MaxMl)
VolumeDefault == Opt({0, MaxUl})

\* self._normalize_volume(ul, ml, default, skip_raise), called as the issuing
\* methods call it.
NormalizeVolume ==
    \E ul \in VolumeUl, ml \in VolumeMl, default \in VolumeDefault,
       skip_raise \in BOOLEAN :
        LET r == _normalize_volume(ul, ml, default, skip_raise)
        IN DocStep("_normalize_volume",
                   Some([ul |-> ul, ml |-> ml, default |-> default,
                         skip_raise |-> skip_raise]),
                   [p |-> p, exc |-> r.exc, ret |-> r.v])

\* transfer('A1:A1', 'A1:B1', ...) with the volume given by v.
VolumeTransfer(v) ==
    Args(v @@ [start |-> Addr(sA1, sA1), end |-> Addr(sA1, sB1)])

VolumeTransfers ==
    {[ul |-> Some(MaxUl)], [ul |-> Some(1000)], [ml |-> Some(1)],
     [ul |-> Some(1000), ml |-> Some(1)], [ul |-> Some(MaxUl), ml |-> Some(1)],
     [ul |-> Some(0)], [tool |-> Some("p10")]}

NextVolume ==
    \/ NormalizeVolume
    \/ AddContainer({Str(sA1)}, {"microplate"}, {None})
    \/ AddInstrument({"A"}, {"p10"})
    \/ AddInstrument({"B"}, {"p1000"})
    \/ IssueCommand("transfer", {VolumeTransfer(v) : v \in VolumeTransfers})

SpecVolume == Init /\ [][NextVolume]_vars

\* C22: _normalize_volume fails exactly when a given volume is zero, when ul
\* and ml are both given and ml * 1000 is not ul, or when none of ul, ml and
\* default is given and the absence is not allowed; otherwise it returns ul
\* if given, else ml * 1000 if given, else the default (nothing when the
\* absence is allowed).  A transfer with ul = 1000 * m and the transfer with
\* ml = m end alike and leave the same document, the same record appended.
C22_VolumeNormalized ==
    /\ last.op = "_normalize_volume" =>
          LET a == last.arg[1]
              fails == \/ Some(0) \in {a.ul, a.ml, a.default}
                       \/ a.ul # None /\ a.ml # None /\ a.ml[1] * 1000 # a.ul[1]
                       \/ a.ul = None /\ a.ml = None /\ a.default = None
                            /\ ~a.skip_raise
          IN /\ fails <=> last.exc # "none"
             /\ fails => last.exc = "ValueError"
             /\ ~fails =>
                   last.ret = (IF a.ul # None THEN a.ul
                               ELSE IF a.ml # None THEN Some(a.ml[1] * 1000)
                               ELSE a.default)
    /\ \A m \in 1..MaxMl :
          LET byUl == transfer(p, VolumeTransfer([ul |-> Some(1000 * m)]))
              byMl == transfer(p, VolumeTransfer([ml |-> Some(m)]))
          IN /\ byUl = byMl
             /\ byUl.exc = "none" =>
                   byUl.p._commands[Len(byUl.p._commands)].volume = 1000 * m

\* A transfer given in millilitres was appended after one given in
\* microlitres, and the two records are the same.
C22_Witness ==
    /\ last.op = "transfer"
    /\ last.exc = "none"
    /\ Len(p._commands) = 2
    /\ p._commands[1] = p._commands[2]
    /\ p._commands[1].volume = 1000

----------------------------------------------------------------------------
(* Batches: the per-item options of transfer_group, distribute and          *)
(* consolidate over the defaults of the call.                               *)

MaxWells == 2
MaxBatch == 1

BatchOps == {"transfer_group", "distribute", "consolidate"}

\* The options dict an item may carry.
ItemOptions ==
    {None, Some([ul |-> 3]), Some([blowout |-> TRUE, touchtip |-> FALSE])}

\* The keyword defaults of the call.
BatchDefaults ==
    {[ul |-> 10], [ul |-> 10, blowout |-> FALSE, touchtip |-> FALSE]}

\* The options of the well tuples of a call, one to MaxWells of them.
BatchWells == UNION {[1..n -> ItemOptions] : n \in 1..MaxWells}

\* Item i of a call names well A<i> of slot A1 (and, for transfer_group, well
\* B<i> as the end).

BatchItem(op, i, opts) ==
    IF op = "transfer_group"
    THEN Item(<<Addr(sA1, <<ChA>> \o IntToStr(i)),
                Addr(sA1, <<ChA + 1>> \o IntToStr(i))>>, opts)
    ELSE Item(<<Addr(sA1, <<ChA>> \o IntToStr(i))>>, opts)

BatchInputs(op) ==
    {[start |-> Addr(sA1, sA1), end |-> Addr(sA1, sB1),
      wells |-> [i \in DOMAIN w |-> BatchItem(op, i, w[i])],
      defaults |-> d] : w \in BatchWells, d \in BatchDefaults}

\* A batch operation called with the arguments a.
IssueBatch(op) ==
    \E a \in BatchInputs(op) :
        /\ Len(p._commands) < MaxBatch
        /\ DocStep(op, Some(a), Issue(op, a))

NextBatch ==
    \/ AddContainer({Str(sA1)}, {"microplate"}, {None})
    \/ AddInstrument({"A"}, {"p10"})
    \/ IssueBatch("transfer_group")
    \/ IssueBatch("distribute")
    \/ IssueBatch("consolidate")

SpecBatch == Init /\ [][NextBatch]_vars

\* The value of a field for an item: its override, else the default of the
\* call, else the value the method falls back to.
Effective(item, defaults, field, fallback) ==
    IF item.opts # None /\ field \in DOMAIN item.opts[1] THEN item.opts[1][field]
    ELSE IF field \in DOMAIN defaults THEN defaults[field]
    ELSE fallback

\* C23: in the record a batch operation appends, every item's volume, blowout
\* and touchtip are the item's override where it gives one and otherwise the
\* default of the call (true for blowout and touchtip when the call gives
\* none).
C23_BatchOverrides ==
    (last.op \in BatchOps /\ last.exc = "none") =>
        LET a == last.arg[1]
            t == p._commands[Len(p._commands)].transfers
        IN /\ Len(t) = Len(a.wells)
           /\ \A i \in 1..Len(t) :
                 /\ t[i].volume = Effective(a.wells[i], a.defaults, "ul", 0)
                 /\ t[i].blowout = Effective(a.wells[i], a.defaults, "blowout", TRUE)
                 /\ t[i].touchtip = Effective(a.wells[i], a.defaults, "touchtip", TRUE)

----------------------------------------------------------------------------
(* Instrument resolution: two instruments with disjoint volume ranges, and  *)
(* calls that leave the instrument to be found by the volume.               *)

ToolVolumes == {1, 5, 10, 15, 20, 50, 200, 300}

\* protocol.get_tool(has_volume=V)
GetTool ==
    \E V \in ToolVolumes :
        LET r == get_tool(p, None, {V})
        IN DocStep("get_tool", Some(V),
                   [p |-> p, exc |-> r.exc,
                    ret |-> IF r.exc = "none" THEN Some(r.v) ELSE None])

ToolTransfers ==
    {[start |-> Addr(sA1, sA1), end |-> Addr(sA1, sB1), ul |-> Some(V)] :
        V \in {5, 15, 50, 300}}

ToolMixes ==
    {[start |-> Addr(sA1, sA1), ul |-> Some(V), repetitions |-> Some(3)] :
        V \in {15, 50}}

ToolDistributes ==
    {[start |-> Addr(sA1, sA1),
      wells |-> <<Item(<<Addr(sA1, sB1)>>, Some([ul |-> V])),
                  Item(<<Addr(sA1, <<ChA, Ch0 + 2>>)>>, None)>>,
      defaults |-> [ul |-> 5]] : V \in {5, 10, 50}}

NextTool ==
    \/ AddContainer({Str(sA1)}, {"microplate"}, {None})
    \/ AddInstrument({"A"}, {"p10"})
    \/ AddInstrument({"B"}, {"p200"})
    \/ GetTool
    \/ IssueCommand("transfer", ToolTransfers)
    \/ IssueCommand("mix", ToolMixes)
    \/ IssueCommand("distribute", ToolDistributes)

SpecTool == Init /\ [][NextTool]_vars

\* No volume is in the range of two instruments of the document.
DisjointRanges(self) ==
    \A a, b \in DOMAIN self._head :
        a # b => \A V \in ToolMin(self._head[a])..ToolMax(self._head[a]) :
                    ~ToolCovers(self._head[b], V)

\* The axes of the document whose instrument covers every volume of vols.
Covering(self, vols) ==
    {a \in DOMAIN self._head : \A V \in vols : ToolCovers(self._head[a], V)}

\* The call raises InstrumentMissing and leaves the document as it was.
Unresolved(self, r) == r.exc = "InstrumentMissing" /\ r.p = self

\* C24: in a document whose instruments have disjoint volume ranges,
\* get_tool(has_volume=V) returns the instrument whose range contains V, of
\* which there is one at most, and raises InstrumentMissing when there is
\* none; a transfer, mix or distribute that names no instrument and whose
\* volumes no instrument covers raises InstrumentMissing and leaves the
\* document, and so the command log, as it was.
C24_ToolResolved ==
    DisjointRanges(p) =>
        /\ last.op = "get_tool" =>
              LET cover == Covering(p, {last.arg[1]})
              IN /\ Cardinality(cover) <= 1
                 /\ cover = {} <=> last.exc = "InstrumentMissing"
                 /\ cover # {} => /\ last.exc = "none"
                                  /\ \E a \in cover : last.ret = Some(p._head[a])
        /\ \A a \in ToolTransfers :
              Covering(p, {a.ul[1]}) = {} => Unresolved(p, transfer(p, Args(a)))
        /\ \A a \in ToolMixes :
              Covering(p, {a.ul[1]}) = {} => Unresolved(p, mix(p, Args(a)))
        /\ \A a \in ToolDistributes :
              Covering(p, {a.wells[1].opts[1].ul, a.defaults.ul}) = {}
                  => Unresolved(p, distribute(p, Args(a)))

\* Both instruments are installed, a command has been appended, and get_tool
\* has just found no instrument for a volume between the two ranges.
C24_Witness ==
    /\ last.op = "get_tool"
    /\ last.arg = Some(15)
    /\ last.exc = "InstrumentMissing"
    /\ DOMAIN p._head = {"A", "B"}
    /\ Len(p._commands) = 1
    /\ transfer(p, Args([start |-> Addr(sA1, sA1), end |-> Addr(sA1, sB1),
                          ul |-> Some(300)])).exc = "InstrumentMissing"

----------------------------------------------------------------------------
(* Addresses: positions and compound addresses normalized, and addresses    *)
(* written in human form, in documents with labelled and unlabelled slots.  *)

sA4 == <<65, 52>>

\* The container half of an address: slots as coordinates in either case, the
\* labels in three capitalizations, a token that is neither, and a label that
\* reads as a coordinate.
ContainerTokens ==
    {sA1, lower(sA1), sB1, lower(sB1), sIn, sIN, lower(sIn), sOut, s11}

\* self._normalize_address("container:well")
NormalizeAddress ==
    \E container \in ContainerTokens, well \in {sA4, s11} :
        LET r == _normalize_address(p, Addr(container, well))
        IN DocStep("_normalize_address",
                   Some([container |-> container, well |-> well]),
                   [p |-> p, exc |-> r.exc,
                    ret |-> IF r.exc = "none" THEN Some(r.v) ELSE None])

\* Position tokens: a first character, a letter of either case or one of the
\* characters next to the letters in ASCII ('@', '[', '`', '{') or a digit,
\* and a row number as it is written.
PositionLetters == (ChA..ChZ) \cup (ChLowerA..ChLowerZ)
PositionRows == {0, 1, 2, 10, 222}

PositionInputs ==
    {Str(<<c>> \o IntToStr(n)) :
        c \in PositionLetters \cup {ChA - 1, ChZ + 1, ChZ + 3, ChLowerA - 1,
                                    ChLowerZ + 1, Ch0 + 1},
        n \in PositionRows}
    \cup {Tup(<<2, 1>>), Tup(<<0, 0>>), Tup(<<1, 2, 3>>), Tup(<<1>>),
          IntPos(1), MixedTup(<<40, 39, 97, 39, 44, 32, 49, 41>>)}

\* normalize_position(position)
NormalizePosition ==
    \E pos \in PositionInputs :
        LET r == normalize_position(pos)
        IN DocStep("normalize_position", Some(pos),
                   [p |-> p, exc |-> r.exc,
                    ret |-> IF r.exc = "none" THEN Some(r.v) ELSE None])

NextAddr ==
    \/ AddContainer({Str(sA1), Str(sB1)}, {"microplate"},
                    {None, Some(sIn), Some(sOut), Some(sB1)})
    \/ NormalizeAddress

SpecAddr == Init /\ [][NextAddr]_vars

\* The coordinates of the container tokens that are coordinate tokens.
TokenCoordinate ==
    [t \in {sA1, lower(sA1), sB1, lower(sB1)} |->
        IF t \in {sA1, lower(sA1)} THEN <<0, 0>> ELSE <<1, 0>>]

\* The labels of the document equal to the token, ignoring case.
LabelsNamed(self, token) ==
    {l \in DOMAIN self._container_labels : lower(l) = lower(token)}

\* C25: for 'container:A4' the container half resolves to its coordinate when
\* it is a coordinate token, otherwise to the slot of the label equal to it
\* ignoring case, and the call raises ContainerMissing when it is neither;
\* the label in any capitalization and the coordinate of its slot resolve to
\* the same address.
C25_AddressResolved ==
    /\ (last.op = "_normalize_address" /\ last.arg[1].well = sA4) =>
          LET c == last.arg[1].container
          IN IF c \in DOMAIN TokenCoordinate
             THEN last.ret = Some(<<TokenCoordinate[c], <<0, 3>>>>)
             ELSE IF LabelsNamed(p, c) # {}
             THEN \E l \in LabelsNamed(p, c) :
                      last.ret = Some(<<p._container_labels[l], <<0, 3>>>>)
             ELSE last.exc = "ContainerMissing"
    /\ \A l \in DOMAIN p._container_labels :
          l \notin DOMAIN TokenCoordinate =>
              LET byLabel == _normalize_address(p, Addr(l, sA4))
              IN /\ byLabel.exc = "none"
                 /\ _normalize_address(p, Addr(upper(l), sA4)) = byLabel
                 /\ _normalize_address(p, Addr(p._label_case[l], sA4)) = byLabel
                 /\ _normalize_address(
                        p, Addr(humanize_position(p._container_labels[l]), sA4))
                      = byLabel

\* Slot A1 is labelled, and the label written in capitals has just been
\* resolved to slot A1.
C25_Witness ==
    /\ last.op = "_normalize_address"
    /\ last.arg = Some([container |-> sIN, well |-> sA4])
    /\ last.ret = Some(<<<<0, 0>>, <<0, 3>>>>)
    /\ p._label_case = (lower(sIn) :> sIn)

\* normalize_position is a function of the labware.grid module: its calls
\* are stepped on their own, no document involved.
NextPosition == NormalizePosition

SpecPosition == Init /\ [][NextPosition]_vars

\* C26: a token of one letter (either case) and a positive decimal number n
\* maps to (index of the letter counted from A = 0, n - 1), so A1 -> (0, 0),
\* C2 and c2 -> (2, 1), b222 -> (1, 221); a tuple of two integers is returned
\* as it is; a token whose first character is no letter raises ValueError; a
\* tuple of another arity or with a member that is no integer, and an
\* integer, raise TypeError.
C26_PositionNormalized ==
    last.op = "normalize_position" =>
        LET pos == last.arg[1]
        IN /\ \A c \in PositionLetters, n \in PositionRows \ {0} :
                 pos = Str(<<c>> \o IntToStr(n)) =>
                     last.ret = Some(<<IF c <= ChZ THEN c - ChA ELSE c - ChLowerA,
                                       n - 1>>)
           /\ pos = Str(sA1) => last.ret = Some(<<0, 0>>)
           /\ pos \in {Str(<<67, 50>>), Str(<<99, 50>>)} => last.ret = Some(<<2, 1>>)
           /\ pos = Str(<<98, 50, 50, 50>>) => last.ret = Some(<<1, 221>>)
           /\ (pos.t = "str" /\ pos.v[1] \notin PositionLetters)
                => last.exc = "ValueError"
           /\ pos.t = "tup" =>
                 IF Len(pos.v) = 2 THEN last.ret = Some(pos.v)
                 ELSE last.exc = "TypeError"
           /\ pos.t \in {"int", "mixed"} => last.exc = "TypeError"

\* The token 'b222' has just been normalized to (1, 221).
C26_Witness ==
    /\ last.op = "normalize_position"
    /\ last.arg = Some(Str(<<98, 50, 50, 50>>))
    /\ last.ret = Some(<<1, 221>>)

-----------------------------------------------------------------------------
(* Partial documents. *)

MaxProblems == 2

\* The subclasses of ProtocolException among the exceptions of the model:
\* the family a PartialProtocol catches.
ProtocolExceptions ==
    {"ContainerConflict", "InstrumentConflict", "InstrumentMissing",
     "ContainerMissing", "DataMissing", "CalibrationMissing"}

\* ExceptionProxy, on a call that raised exc: an exception of the family is
\* caught and its description queued, and the proxy is valid no more.
ProxyQueue(proxy, exc) ==
    [is_valid |-> FALSE, problems |-> Append(proxy.problems, exc)]

\* Protocol.partial(): the program starts from a new document behind a
\* PartialProtocol that has queued nothing.
Partial ==
    /\ p = NewProtocol /\ hobj = <<>> /\ gen = NoGen
    /\ p' = [NewProtocol EXCEPT
                !._partial_proxy = Some([is_valid |-> TRUE, problems |-> <<>>])]
    /\ last' = [op |-> "partial", exc |-> "none", arg |-> None, ret |-> None,
                calls |-> <<>>]
    /\ UNCHANGED <<hobj, logger_disabled, gen, markers, calls>>

\* A call made through the PartialProtocol: the call runs on the document;
\* an exception of the family is queued and the call returns, any other
\* exception propagates.
ProxyStep(op, r) ==
    /\ p._partial_proxy # None
    /\ Len(p._partial_proxy[1].problems) < MaxProblems
    /\ IF r.exc \in ProtocolExceptions
       THEN /\ p' = [r.p EXCEPT
                        !._partial_proxy = Some(ProxyQueue(p._partial_proxy[1], r.exc))]
            /\ last' = [op |-> op, exc |-> "none", arg |-> None, ret |-> None,
                        calls |-> <<>>]
       ELSE /\ p' = r.p
            /\ last' = [op |-> op, exc |-> r.exc, arg |-> None, ret |-> r.ret,
                        calls |-> <<>>]
    /\ UNCHANGED <<hobj, logger_disabled, gen, markers, calls>>

ProxyAddContainer(slots, names, labels) ==
    \E slot \in slots, name \in names, label \in labels :
        ProxyStep("proxy.add_container", add_container(p, slot, name, label))

ProxyCommand(op, inputs) ==
    \E a \in inputs :
        /\ Len(p._commands) < MaxCmds
        /\ ProxyStep("proxy.transfer", Issue(op, a))

NextPartial ==
    \/ Partial
    \/ ProxyAddContainer({Str(sA1)}, {"microplate", "tiprack"}, {None})
    \/ ProxyCommand("transfer", {Transfer5})
    \/ AddInstrument({"A"}, {"p10"})
    \/ AttachHandler({"ProtocolHandler"}, 1)
    \/ Export({FALSE}, MaxHandlers)
    \/ RunCall
    \/ RunResume

SpecPartial == Init /\ [][NextPartial]_vars

\* The descriptions the document's proxy has queued; none without a proxy.
Problems(self) ==
    IF self._partial_proxy = None THEN <<>> ELSE self._partial_proxy[1].problems

\* message is error_message, then the problems in their order.
ListsProblems(message, error_message, problems) ==
    /\ Len(message) = 2 * Len(problems) + 1
    /\ message[1] = error_message
    /\ \A i \in 1..Len(problems) : message[2 * i + 1] = problems[i]

\* C27: while the document's proxy holds a queued problem, export and the
\* first resumption of run raise PartialProtocolException with a message
\* that lists the queued problems in their order, and leave the document
\* (its version and its context), the handlers and the logger as they were,
\* with no handler called and no formatter output; a document with no proxy,
\* or with one that has queued nothing, passes validate, and its export and
\* run do not raise PartialProtocolException.
C27_PartialBlocked ==
    /\ [](/\ Problems(p) # <<>> => validate(p) = "PartialProtocolException"
          /\ Problems(p) = <<>> => validate(p) = "none")
    /\ [][(\/ last'.op = "export"
           \/ last'.op = "next" /\ gen.state = "created") =>
            IF Problems(p) # <<>>
            THEN /\ last'.exc = "PartialProtocolException"
                 /\ last'.ret # None
                 /\ ListsProblems(last'.ret[1],
                                  IF last'.op = "export"
                                  THEN "Can't export invalid PartialProtocol."
                                  ELSE "Can't run an incomplete PartialProtocol.",
                                  Problems(p))
                 /\ last'.calls = <<>>
                 /\ UNCHANGED <<p, hobj, logger_disabled, calls, markers>>
            ELSE last'.exc # "PartialProtocolException"]_vars

\* An export was refused with a message listing two different problems.
C27_Witness ==
    /\ last.op = "export"
    /\ last.exc = "PartialProtocolException"
    /\ Len(Problems(p)) = 2
    /\ Problems(p)[1] # Problems(p)[2]
    /\ Len(hobj) > 0

-----------------------------------------------------------------------------
(* The end-to-end scenario: export with and without a virtual run. *)

sC1 == <<67, 49>>

\* transfer('A1:A1', 'B1:B1', ul=10, tool='p10')
ScenarioTransfer ==
    [start |-> Addr(sA1, sA1), end |-> Addr(sB1, sB1), ul |-> Some(10),
     tool |-> Some("p10")]

NextScenario ==
    \/ AddInstrument({"A"}, {"p10"})
    \/ AddInstrument({"B"}, {"p200"})
    \/ AddContainer({Str(sA1)}, {"microplate"}, {Some(sIn)})
    \/ AddContainer({Str(sB1)}, {"microplate"}, {Some(sOut)})
    \/ AddContainer({Str(sC1)}, {"tiprack"}, {None})
    \/ IssueCommand("transfer", {ScenarioTransfer})
    \/ AttachMotor(MaxHandlers)
    \/ Export({FALSE, TRUE}, MaxHandlers)
    \/ RunAll

SpecScenario == Init /\ [][NextScenario]_vars

\* Instruments on axes A and B, labelled microplates in slots A1 and B1, at
\* least one transfer, and neither a tiprack nor a trash container.
Scenario(self) ==
    /\ {"A", "B"} \subseteq DOMAIN self._head
    /\ \A slot \in {<<0, 0>>, <<1, 0>>} :
          /\ slot \in DOMAIN self._containers
          /\ self._containers[slot] = "microplate"
          /\ \E l \in DOMAIN self._container_labels :
                self._container_labels[l] = slot
    /\ \E i \in 1..Len(self._commands) : self._commands[i].command = "transfer"
    /\ \A slot \in DOMAIN self._containers :
          self._containers[slot] \notin {"tiprack", "trash"}

\* C28: for the document of the scenario, export without a virtual run
\* returns the formatter's output, export with validate_run=True raises
\* ContainerMissing, and so does running the document on an attached motor
\* handler.
C28_ScenarioExport ==
    Scenario(p) =>
        /\ export(W, FALSE).exc = "none"
        /\ export(W, FALSE).ret # None
        /\ export(W, TRUE).exc = "ContainerMissing"
        /\ run_all(attach_motor(W, None).w).exc = "ContainerMissing"
        /\ (last.op = "export" /\ last.arg = Some(FALSE)) => last.exc = "none"
        /\ (last.op = "export" /\ last.arg = Some(TRUE))
              => last.exc = "ContainerMissing"
        /\ (last.op = "run_all" /\ p._motor_handler # None)
              => last.exc = "ContainerMissing"

-----------------------------------------------------------------------------
(* Calibration and the rebuilt context. *)

MaxOffset == 1

CalibrateTargets == {sA1, Addr(sA1, sB1)}
CalibrateOffsets == Opt(1..MaxOffset)

\* calibrate(position, x=, y=, z=) on a declared container.
Calibrate ==
    \E position \in CalibrateTargets, x \in CalibrateOffsets, z \in CalibrateOffsets :
        /\ <<0, 0>> \in DOMAIN p._containers
        /\ DocStep("calibrate", Some([x |-> x, z |-> z]),
                   calibrate(p, position, [x |-> x, z |-> z]))

\* calibrate_instrument(axis, top=, blowout=, droptip=, bottom=) on a declared
\* axis.
CalibrateInstrument ==
    \E axis \in {"A"} :
        \E top \in CalibrateOffsets, blowout \in CalibrateOffsets,
           droptip \in CalibrateOffsets, bottom \in CalibrateOffsets :
            /\ axis \in DOMAIN p._head
            /\ DocStep("calibrate_instrument",
                       Some([top |-> top, blowout |-> blowout, droptip |-> droptip,
                             bottom |-> bottom]),
                       calibrate_instrument(p, axis, top, blowout, droptip, bottom))

NextCal ==
    \/ AddContainer({Str(sA1)}, {"microplate"}, {None})
    \/ AddInstrument({"A"}, {"p10"})
    \/ Calibrate
    \/ CalibrateInstrument
    \/ IssueCommand("transfer", {Transfer5})
    \/ RunCall
    \/ RunResume

SpecCal == Init /\ [][NextCal]_vars

\* What a command can read in a context: the deck, the instruments and the
\* calibration data.
ContextData(ch) ==
    [containers |-> ch.containers, instruments |-> ch.instruments,
     calibration |-> ch.calibration]

\* C29: the context holds nothing that initialize_context() would not
\* rebuild from the document; calibrate_instrument records every value it is
\* given, top, blowout, droptip and bottom; and the calibration data recorded
\* before a run is in the context after run() has rebuilt it.
C29_ContextDerived ==
    /\ [](ContextData(initialize_context(p)) = ContextData(p._context_handler))
    /\ [][/\ (last'.op = "calibrate_instrument" /\ last'.exc = "none") =>
                \A f \in Given(last'.arg[1]) :
                    \E e \in p'._context_handler.calibration :
                        e.axis # "" /\ e.field = f /\ e.value = last'.arg[1][f][1]
          /\ (last'.op = "next" /\ gen.state = "created" /\ last'.exc = "none") =>
                p._context_handler.calibration
                    \subseteq p'._context_handler.calibration]_vars

-----------------------------------------------------------------------------
(* Humanized addresses. *)

HumanizeWells == {<<0, 0>>, <<1, 3>>}

\* self.humanize_address((slot, well)) for a declared slot; first is the
\* label the dict iteration of get_container_label meets first on each slot.
HumanizeAddress ==
    \E slot \in DOMAIN p._containers, well \in HumanizeWells,
       first \in Inverses(p._container_labels) :
        LET r == humanize_address(p, <<Tup(slot), well>>, first)
        IN DocStep("humanize_address", Some([slot |-> slot, well |-> well]),
                   [p |-> p, exc |-> r.exc,
                    ret |-> IF r.exc = "none" THEN Some(r.v) ELSE None])

NextHumanize ==
    \/ NextAddr
    \/ HumanizeAddress

SpecHumanize == Init /\ [][NextHumanize]_vars

\* C30: humanize_address((slot, well)) of a declared slot returns a string
\* that _normalize_address takes back to (slot, well), whether the slot is
\* labelled or not and whatever the label is; for a labelled slot the
\* container half of the string is a label of the slot in its stored
\* capitalization.
C30_HumanizeInverts ==
    last.op = "humanize_address" =>
        LET slot == last.arg[1].slot
            well == last.arg[1].well
        IN /\ last.exc = "none"
           /\ _normalize_address(p, last.ret[1]) = Ok(<<slot, well>>)
           /\ slot \in Values(p._container_labels) =>
                 \E l \in DOMAIN p._container_labels :
                    /\ p._container_labels[l] = slot
                    /\ Split(last.ret[1], ChColon)[1] = p._label_case[l]

-----------------------------------------------------------------------------
(* Commands the ContextHandler does not define. *)

\* Command names that are no method of the ContextHandler.
UndefinedCommands == {"home", "wash"}

\* self.add_command(command, **kwargs), the name of the command recorded.
AddCommand(inputs) ==
    \E c \in inputs :
        /\ Len(p._commands) < MaxCmds
        /\ DocStep("add_command", Some(c.command), add_command(p, c))

\* self._run_in_context_handler(command, **kwargs), as a replay of a record
\* of that name calls it.
RunInContextHandler(inputs) ==
    \E c \in inputs :
        /\ p._context_handler.ran < MaxCmds
        /\ DocStep("_run_in_context_handler", Some(c.command),
                   _run_in_context_handler(p, c))

MissingInputs ==
    CommandInputs \cup {[command |-> name] : name \in UndefinedCommands}

NextMissing ==
    \/ AddContainer({Str(sA1), Str(sB1)}, {"microplate"}, {None, Some(sIn)})
    \/ AddInstrument({"A"}, {"p10"})
    \/ IssueCommand("transfer", {Transfer5})
    \/ AddCommand(MissingInputs)
    \/ RunInContextHandler(MissingInputs)

SpecMissing == Init /\ [][NextMissing]_vars

\* C31: add_command with a name the ContextHandler does not define raises
\* CommandMissing and leaves the command log as it was, and so does the dry
\* run by which a command record of that name is replayed.
C31_CommandMissing ==
    [][(/\ last'.op \in {"add_command", "_run_in_context_handler"}
        /\ last'.arg[1] \notin CtxCommands)
         => /\ last'.exc = "CommandMissing"
            /\ p'._commands = p._commands]_vars

-----------------------------------------------------------------------------
(* Labels across a merge. *)

\* Every label of a resolves in c to the slot it resolves to in a.
LabelsKept(c, a) ==
    \A l \in DOMAIN a._container_labels :
        _normalize_address(c, Addr(l, sA1)) = _normalize_address(a, Addr(l, sA1))

\* Some label, compared in lowercase, names one slot in a and another in b.
LabelRebound(a, b) ==
    \E l \in (DOMAIN a._container_labels) \cap (DOMAIN b._container_labels) :
        a._container_labels[l] # b._container_labels[l]

\* C32: after an A + B that returns, every label of A resolves to the slot it
\* had in A and every label of B to the slot it had in B; when a label names
\* different slots in A and in B, A + B raises.
C32_LabelsNotRebound ==
    last.op = "__add__"
    => /\ last.exc = "none" => (LabelsKept(MergedC, p) /\ LabelsKept(MergedC, MergedB))
       /\ LabelRebound(p, MergedB) => last.exc # "none"

====
